---------------------------- MODULE Spec2Model ----------------------------
(***************************************************************************)
(* A model of the sync core of claude-code-sync: the session model of      *)
(* parser.rs, the relationship analyzer and conflict detector of           *)
(* conflict.rs, the history-index merger of history_merge.rs, the sync     *)
(* lock of lock.rs and the pull / push orchestrators of sync/pull.rs and   *)
(* sync/push.rs.                                                           *)
(*                                                                         *)
(* Abstractions: xxh3-64 is taken to be collision free (a digest is the    *)
(* value it digests), serde_json::to_string of an entry is injective (the  *)
(* serialized entry is the entry record), an ISO-8601 timestamp is a       *)
(* natural number with 0 standing for a missing one (Option::None sorts    *)
(* before every Some).  A line of a file is the entry it holds plus the    *)
(* layout of its bytes (field `extra`): "x" as the assistant tool wrote    *)
(* it, "n" as serde_json::to_string writes a parsed entry.                 *)
(***************************************************************************)
EXTENDS Naturals, Sequences, FiniteSets, TLC

\* ------------------------------------------------------------------ bounds
MaxLen == 2          \* longest session file of an initial state
MaxToolWrites == 1   \* appends of the assistant tool in one behaviour
MaxRuns == 2         \* invocations of pull / push that take the lock
MaxFaults == 1       \* failures of the network, the file system, the terminal

\* ----------------------------------------------------------- session model
NoUuid == "none"     \* ConversationEntry.uuid = None
NoSid == "none"      \* ConversationEntry.session_id = None

\* The store holds one file per path; a path that holds no file is Absent.
\* Beside the path of a session file lies the path its conflict copy gets.
SessionPaths == {"p1", "p2"}
Paths == SessionPaths \cup {"p1-conflict", "p2-conflict"}
Absent == [ex |-> FALSE, lines |-> <<>>]
File(lines) == [ex |-> TRUE, lines |-> lines]

\* path.file_stem() of a session file
file_stem(p) ==
    IF p = "p1" THEN "s1" ELSE IF p = "p2" THEN "s2"
    ELSE IF p = "p1-conflict" THEN "s1-conflict" ELSE "s2-conflict"

ConversationEntry(typ, uuid, sid, ts, msg, extra) ==
    [typ |-> typ, uuid |-> uuid, sid |-> sid, ts |-> ts, msg |-> msg, extra |-> extra]

ConversationSession(session_id, entries, file_path) ==
    [session_id |-> session_id, entries |-> entries, file_path |-> file_path]

Range(s) == {s[i] : i \in DOMAIN s}

\* ConversationSession::from_file: the session id is the sessionId of the
\* first entry that carries one, the file stem when no entry does.
\* (a parser that looks at the first entry only, the fault the session-id
\* property must detect)
sid_of_first_entry(entries, stem) ==
    IF entries # <<>> /\ Head(entries).sid # NoSid THEN Head(entries).sid ELSE stem

RECURSIVE first_session_id(_, _)
first_session_id(entries, stem) ==
    IF entries = <<>> THEN stem
    ELSE IF Head(entries).sid # NoSid THEN Head(entries).sid
    ELSE first_session_id(Tail(entries), stem)

\* serde_json::from_str of a line: the entry, whatever the layout of its bytes
parse_line(l) == [l EXCEPT !.extra = "n"]

from_file(p, f) ==
    LET entries == [i \in DOMAIN f.lines |-> parse_line(f.lines[i])]
    IN  ConversationSession(first_session_id(entries, file_stem(p)), entries, p)

\* A line that is no JSON object: what a crash in the middle of an append leaves
Malformed == ConversationEntry("<malformed>", NoUuid, NoSid, 0, "", "")

\* serde_json::from_str of every line succeeds
parses(f) == \A i \in DOMAIN f.lines : f.lines[i].typ # "<malformed>"

\* ConversationSession::content_hash
content_hash(session) == session.entries

\* make_content_key: (type, timestamp, xxh3(message))
make_content_key(entry) == <<entry.typ, entry.ts, entry.msg>>

\* The identity of an entry: its uuid, or its content-key when it has none.
Identity(entry) ==
    IF entry.uuid # NoUuid THEN <<"uuid", entry.uuid, "", 0, "">>
    ELSE <<"key", NoUuid>> \o make_content_key(entry)

Identities(entries) == {Identity(entries[i]) : i \in DOMAIN entries}

uuids_of(entries) == {entries[i].uuid : i \in DOMAIN entries} \ {NoUuid}

\* slice::sort_by on the timestamp: a stable sort, None (0) first
RECURSIVE InsertByTs(_, _)
InsertByTs(sorted, e) ==
    IF sorted = <<>> THEN <<e>>
    ELSE IF Head(sorted).ts <= e.ts THEN <<Head(sorted)>> \o InsertByTs(Tail(sorted), e)
    ELSE <<e>> \o sorted

\* (a sort that leaves the order as it is, the fault the ordering property
\* must detect)
unsorted(s) == s

RECURSIVE sort_by_timestamp(_)
sort_by_timestamp(s) ==
    IF s = <<>> THEN <<>>
    ELSE InsertByTs(sort_by_timestamp(SubSeq(s, 1, Len(s) - 1)), s[Len(s)])

\* ------------------------------------------------- relationship analyzer
\* verify_common_entries_identical: local_map is a HashMap uuid -> json built
\* by collect(), so of two local entries with one uuid the later one stays.
LastWithUuid(entries, u) ==
    entries[CHOOSE i \in DOMAIN entries :
        /\ entries[i].uuid = u
        /\ \A j \in DOMAIN entries : entries[j].uuid = u => j <= i]

\* (a check that accepts every pair, the fault the edited-history property
\* must detect)
verify_nothing(local, remote) == TRUE

verify_common_entries_identical(local, remote) ==
    \A i \in DOMAIN remote.entries :
        LET e == remote.entries[i] IN
        (e.uuid # NoUuid /\ e.uuid \in uuids_of(local.entries))
            => e = LastWithUuid(local.entries, e.uuid)

\* (an analyzer that looks at the uuid sets only, the fault the variant
\* property must detect)
analyze_uuid_sets_only(local, remote) ==
    LET local_only == uuids_of(local.entries) \ uuids_of(remote.entries)
        remote_only == uuids_of(remote.entries) \ uuids_of(local.entries)
    IN  IF content_hash(local) = content_hash(remote) THEN "Identical"
        ELSE IF local_only = {} /\ remote_only # {} THEN "LocalIsPrefix"
        ELSE IF remote_only = {} /\ local_only # {} THEN "RemoteIsPrefix"
        ELSE "Diverged"

analyze_session_relationship(local, remote) ==
    LET local_only == uuids_of(local.entries) \ uuids_of(remote.entries)
        remote_only == uuids_of(remote.entries) \ uuids_of(local.entries)
    IN  IF content_hash(local) = content_hash(remote) THEN "Identical"
        ELSE IF local_only = {} /\ remote_only # {}
                /\ verify_common_entries_identical(local, remote) THEN "LocalIsPrefix"
        ELSE IF remote_only = {} /\ local_only # {}
                /\ verify_common_entries_identical(local, remote) THEN "RemoteIsPrefix"
        ELSE "Diverged"

\* ------------------------------------------------------ conflict detector
\* HashMap session_id -> session built by collect(): the last session of the
\* list with that id.
HasId(sessions, id) == \E i \in DOMAIN sessions : sessions[i].session_id = id

MapGet(sessions, id) ==
    sessions[CHOOSE i \in DOMAIN sessions :
        /\ sessions[i].session_id = id
        /\ \A j \in DOMAIN sessions : sessions[j].session_id = id => j <= i]

\* Conflict::new
Conflict(local, remote) ==
    [session_id |-> local.session_id,
     local_file |-> local.file_path,
     remote_file |-> remote.file_path,
     local_hash |-> content_hash(local),
     remote_hash |-> content_hash(remote),
     resolution |-> "Pending"]

\* Conflict::resolve_keep_both: <stem>-<conflict_suffix>.<ext> in the
\* directory of the remote file
resolve_keep_both(conflict) == conflict.remote_file \o "-conflict"

\* (a detector that classifies by the uuid sets only, the fault the
\* no-inline-union property must detect)
RECURSIVE detect_by_uuid_sets(_, _, _)
detect_by_uuid_sets(local_sessions, remote_sessions, k) ==
    IF k > Len(remote_sessions) THEN <<>>
    ELSE LET remote == remote_sessions[k]
             rest == detect_by_uuid_sets(local_sessions, remote_sessions, k + 1)
         IN  IF /\ HasId(local_sessions, remote.session_id)
                /\ analyze_uuid_sets_only(
                       MapGet(local_sessions, remote.session_id), remote) = "Diverged"
             THEN <<Conflict(MapGet(local_sessions, remote.session_id), remote)>> \o rest
             ELSE rest

\* ConflictDetector::detect: the conflicts pushed, in the order of the remote list
RECURSIVE detect_from(_, _, _)
detect_from(local_sessions, remote_sessions, k) ==
    IF k > Len(remote_sessions) THEN <<>>
    ELSE LET remote == remote_sessions[k]
             rest == detect_from(local_sessions, remote_sessions, k + 1)
         IN  IF /\ HasId(local_sessions, remote.session_id)
                /\ analyze_session_relationship(
                       MapGet(local_sessions, remote.session_id), remote) = "Diverged"
             THEN <<Conflict(MapGet(local_sessions, remote.session_id), remote)>> \o rest
             ELSE rest

detect(local_sessions, remote_sessions) == detect_from(local_sessions, remote_sessions, 1)

\* ------------------------------------------------------------------ merger
\* merge::merge_conversations: every local entry in order, then the remote
\* entries whose identity was not seen yet (each one registered as it is
\* added), the whole stable-sorted by timestamp.
RECURSIVE add_unseen(_, _, _)
add_unseen(result, seen, remote_entries) ==
    IF remote_entries = <<>> THEN result
    ELSE LET e == Head(remote_entries) IN
         IF Identity(e) \in seen
         THEN add_unseen(result, seen, Tail(remote_entries))
         ELSE add_unseen(Append(result, e), seen \cup {Identity(e)}, Tail(remote_entries))

merge_conversations(local, remote) ==
    sort_by_timestamp(add_unseen(local.entries, Identities(local.entries), remote.entries))

\* (a union that keeps the local side only, and one that drops nothing of
\* either side: the faults the union and the commutativity properties must
\* detect)
keep_local_only(local, remote) == sort_by_timestamp(local.entries)

concat_sorted(local, remote) == sort_by_timestamp(local.entries \o remote.entries)

\* The inline union of the non-conflicting pass: the local entries, then the
\* remote entries that no local entry dominates, sorted by timestamp.
inline_merge(local, remote) ==
    LET seen_uuids == uuids_of(local.entries)
        seen_non_uuid == {make_content_key(local.entries[i]) :
                             i \in {j \in DOMAIN local.entries : local.entries[j].uuid = NoUuid}}
        dominated_by_local(e) ==
            IF e.uuid # NoUuid THEN e.uuid \in seen_uuids
            ELSE make_content_key(e) \in seen_non_uuid
        not_dominated(e) == ~dominated_by_local(e)
    IN  sort_by_timestamp(local.entries \o SelectSeq(remote.entries, not_dominated))

\* -------------------------------------------------------------- session I/O
\* ConversationSession::write_to_file: File::create truncates, one line per entry
write_to_file(session) == File(session.entries)

\* The bytes of a file: the texts written to it, each with the newline that
\* ends it or without one. Only the torn line a crash leaves has none.
Chunk(text, nl) == [text |-> text, nl |-> nl]

bytes_of(f) == [i \in DOMAIN f.lines |-> Chunk(f.lines[i], f.lines[i] # Malformed)]

\* A torn line with the text appended after it: one line that is no JSON object
Glued == ConversationEntry("<malformed>", NoUuid, NoSid, 0, "", "glued")

\* BufReader::lines: the texts up to a newline are one line
RECURSIVE lines_of(_)
lines_of(bytes) ==
    IF bytes = <<>> THEN <<>>
    ELSE IF Head(bytes).nl \/ Len(bytes) = 1
    THEN <<Head(bytes).text>> \o lines_of(Tail(bytes))
    ELSE lines_of(<<Chunk(Glued, bytes[2].nl)>> \o Tail(Tail(bytes)))

\* writeln!(file, "{json}")
writeln(bytes, entry) == Append(bytes, Chunk(entry, TRUE))

\* (File::create in place of the append mode: the file is truncated first,
\* the fault the append property must detect)
create_and_write(bytes, entries) == [i \in DOMAIN entries |-> Chunk(entries[i], TRUE)]

\* The loop of append_entries_to_file over the entries, on a file opened with
\* create + append
RECURSIVE append_bytes(_, _)
append_bytes(bytes, entries) ==
    IF entries = <<>> THEN bytes
    ELSE append_bytes(writeln(bytes, Head(entries)), Tail(entries))

\* append_entries_to_file, as the file reads afterwards
append_entries_to_file(f, entries) == File(lines_of(append_bytes(bytes_of(f), entries)))

\* (a selection that matches by uuid only, the fault the write-back property
\* must detect)
missing_by_uuid(local_session, sync_session) ==
    LET local_uuids == uuids_of(local_session.entries)
        missing(e) == e.uuid = NoUuid \/ e.uuid \notin local_uuids
    IN  SelectSeq(sync_session.entries, missing)

\* The write-back's selection: the transport entries that the local session
\* read before the loop does not hold, by uuid or by content-key.
entries_to_append(local_session, sync_session) ==
    LET local_uuids == uuids_of(local_session.entries)
        local_non_uuid_keys ==
            {make_content_key(local_session.entries[i]) :
                i \in {j \in DOMAIN local_session.entries :
                          local_session.entries[j].uuid = NoUuid}}
        missing(e) ==
            IF e.uuid # NoUuid THEN e.uuid \notin local_uuids
            ELSE make_content_key(e) \notin local_non_uuid_keys
    IN  SelectSeq(sync_session.entries, missing)

\* ------------------------------------------------------ history-index merge
HistoryLine(sid, ts, display) == [sid |-> sid, ts |-> ts, display |-> display]

\* HistoryEntry::parse: None for a line without sessionId or timestamp, with
\* an empty sessionId or with a zero timestamp
\* (a parser that accepts every line, the fault the validity property must
\* detect)
parse_anything(line) == TRUE

parse_ok(line) == line.sid # NoSid /\ line.sid # "" /\ line.ts # 0

\* (a key that tells two versions of one entry apart, the fault the
\* uniqueness property must detect)
whole_line(line) == <<line.sid, line.ts, line.display>>

dedup_key(line) == <<line.sid, line.ts>>

RECURSIVE read_history(_, _, _)
read_history(entries, seen, lines) ==
    IF lines = <<>> THEN entries
    ELSE LET l == Head(lines) IN
         IF parse_ok(l) /\ dedup_key(l) \notin seen
         THEN read_history(Append(entries, l), seen \cup {dedup_key(l)}, Tail(lines))
         ELSE read_history(entries, seen, Tail(lines))

\* (a merger that reads the target first whatever the priority, the fault
\* the priority property must detect)
merge_target_first(source, target, priority) ==
    LET from_first == read_history(<<>>, {}, target.lines)
        seen == {dedup_key(from_first[i]) : i \in DOMAIN from_first}
    IN  File(sort_by_timestamp(read_history(from_first, seen, source.lines)))

\* merge_history_files: the priority file is read first, the other one adds
\* the keys not seen, the result is sorted by timestamp and written to target.
merge_history_files(source, target, priority) ==
    LET first == IF priority = "TargetFirst" THEN target ELSE source
        second == IF priority = "TargetFirst" THEN source ELSE target
        from_first == read_history(<<>>, {}, first.lines)
        seen == {dedup_key(from_first[i]) : i \in DOMAIN from_first}
        entries == read_history(from_first, seen, second.lines)
    IN  File(sort_by_timestamp(entries))

\* ------------------------------------------------------------- input pools
\* Entries of the initial stores. EA is shared history, EB a local and EC a
\* remote continuation (EC is older than EB), EN a snapshot entry without
\* uuid, sessionId or timestamp, EAx an edited copy of EA (same uuid), EF the
\* entry of a file of another session. A second local file may hold a second
\* transcript of session s1 that starts with the same entry EA.
EA == ConversationEntry("user", "u1", "s1", 1, "m1", "x")
EAx == ConversationEntry("user", "u1", "s1", 1, "m1-edited", "x")
EB == ConversationEntry("assistant", "u2", "s1", 3, "m2", "x")
EC == ConversationEntry("assistant", "u3", "s1", 2, "m3", "x")
EN == ConversationEntry("file-history-snapshot", NoUuid, NoSid, 0, "f1", "x")
EF == ConversationEntry("user", "u5", "s2", 2, "m5", "x")

EG == ConversationEntry("user", "u6", "s1", 5, "m6", "x")
EH == ConversationEntry("user", "u7", "s1", 5, "m7", "x")

\* The history of session s1 on this machine, and the histories another machine
\* may have pushed: a continuation, a snapshot entry, an edited first entry.
LocalHistory == <<EA, EB, EG>>
RemoteHistories == {<<EA, EC, EH>>, <<EA, EN, EC>>, <<EAx>>}

\* The entries the assistant tool writes: fresh uuids, the time of writing
ToolUuids == <<"t1", "t2", "t3">>
ToolEntry(k, sid) == ConversationEntry("user", ToolUuids[k], sid, 4, "typed", "x")

\* The non-empty prefixes of a history, MaxLen entries at most
Prefixes(h) == {SubSeq(h, 1, n) : n \in 1..(IF Len(h) < MaxLen THEN Len(h) ELSE MaxLen)}

\* A file as write_to_file leaves it
Written(q) == File([i \in DOMAIN q |-> parse_line(q[i])])

\* ------------------------------------------------------------ the transport
Tree(files, hist) == [files |-> files, hist |-> hist]
EmptyTree == Tree([p \in Paths |-> Absent], Absent)

MainBranch == "main"
TempNames == <<"sync-local-1", "sync-local-2", "sync-local-3">>

\* WalkDir yields the files of a directory in the order of the file system;
\* discover_sessions parses each one and keeps that order.
RECURSIVE discover_in(_, _)
discover_in(files, order) ==
    IF order = <<>> THEN <<>>
    ELSE (IF files[Head(order)].ex /\ parses(files[Head(order)])
          THEN <<from_file(Head(order), files[Head(order)])>> ELSE <<>>)
         \o discover_in(files, Tail(order))

WalkOrders ==
    {<<"p1", "p1-conflict", "p2", "p2-conflict">>, <<"p2", "p2-conflict", "p1", "p1-conflict">>}

\* paths.par_iter().filter_map(from_file ..).collect(): the parses finish in
\* any order, each leaves Some(session) or None for its path, and the Vec
\* holds the sessions in the order of the paths.
RECURSIVE par_filter_map(_, _, _)
par_filter_map(files, finish, done) ==
    IF finish = <<>> THEN done
    ELSE LET path == Head(finish)
             parsed == IF files[path].ex /\ parses(files[path])
                       THEN <<from_file(path, files[path])>> ELSE <<>>
         IN  par_filter_map(files, Tail(finish), [done EXCEPT ![path] = parsed])

RECURSIVE collect(_, _)
collect(done, order) ==
    IF order = <<>> THEN <<>> ELSE done[Head(order)] \o collect(done, Tail(order))

\* (a discovery that returns the first parse error, the fault the
\* skip-on-error property must detect)
discover_or_fail(files, order, finish) ==
    IF \E p \in Paths : files[p].ex /\ ~parses(files[p])
    THEN [ok |-> FALSE, sessions |-> <<>>]
    ELSE [ok |-> TRUE,
          sessions |-> collect(par_filter_map(files, finish, [p \in Paths |-> <<>>]), order)]

discover_sessions(files, order, finish) ==
    [ok |-> TRUE,
     sessions |-> collect(par_filter_map(files, finish, [p \in Paths |-> <<>>]), order)]

\* ------------------------------------------------------------------- state
Procs == {"cli-1", "cli-2", "cli-3"}
Main == "cli-1"      \* the process that runs pull and push in Spec

VARIABLES
    status,          \* per process: idle, running, or how its invocation returned
    kind,            \* per process: the operation of its invocation
    lockHolders,     \* the processes whose open sync.lock holds the flock
    runs,            \* invocations that took the lock
    local,           \* the local store: path -> session file
    localHist,       \* the local history.jsonl
    branches,        \* the transport repository: branch name -> committed tree
    head,            \* its checked-out branch
    work,            \* its working tree
    originMain,      \* the tree of origin/main
    originBranches,  \* the safety branches the remote holds
    synced,          \* origin/main is in the history of the local main
    localCommits,    \* the local main has commits origin/main lacks
    aged,            \* the safety branches older than the retention window
    walk,            \* the order in which a directory walk yields the two names
    pc,              \* the step the running invocation is at
    has_remote,      \* fetch_remote && state.has_remote of the invocation
    retention,       \* filter.temp_branch_retention_hours
    main_branch,
    temp_branch,
    local_sessions,          \* the first snapshot of the local store
    remote_sessions,
    temp_branch_sessions,
    conflicts,               \* detector.conflicts
    current_local_sessions,  \* the local store as re-read by the write-back
    sync_repo_sessions,
    wb,                      \* the write-back loop's index
    history_entries,         \* the merged index lines the last merge holds between
                             \* reading the two files and writing the local one
    journal,                 \* the operation journal
    faults,                  \* failures of the environment so far
    toolWrites,              \* appends of the assistant tool so far
    pre,                     \* the local store when the running pull started
    toolLog,                 \* per path, what the tool appended between the first
                             \* snapshot and the write-back of the path
    toolLate,                \* per path, what the tool appended after that
    toolHist,                \* the lines the tool appended to the local history
                             \* index while the running pull merged it
    idem,                    \* the successful pulls in a row with no tool activity, no
                             \* other invocation and no news from the remote in between,
                             \* and the local store the first of them left
    ended,                   \* how the invocations returned, in order
    push_error,              \* the last failure of repo.push in push_history: the message
                             \* the transport raised and the error push_history returned
    call,                    \* a call of one of the pure functions: its arguments
    ret                      \* what the call returned

lockVars == <<status, kind, lockHolders, runs>>
storeVars == <<local, localHist>>
repoVars == <<branches, head, work, originMain, originBranches, synced, localCommits, aged>>
walkVars == <<walk>>
mergeVars == <<history_entries>>
confVars == <<has_remote, retention>>
pullVars == <<pc, main_branch, temp_branch, local_sessions,
              remote_sessions, temp_branch_sessions, conflicts,
              current_local_sessions, sync_repo_sessions, wb>>
obsVars == <<toolWrites, pre, toolLog, toolLate, toolHist>>
endVars == <<idem, ended>>
fnVars == <<call, ret>>
vars == <<lockVars, storeVars, repoVars, walkVars, mergeVars, confVars, faults, pullVars, journal, obsVars,
          endVars, push_error, fnVars>>

Retentions == {0, 24}
NoLog == [p \in Paths |-> <<>>]
NoIdem == [n |-> 0, local |-> [p \in Paths |-> Absent], hist |-> Absent]
NoError == [returned |-> [class |-> "none", cause |-> {}], raised |-> {}]
NoCall == [fn |-> "none"]
NoRet == [fn |-> "none"]

\* ----------------------------------------------------------- initial states
HL == HistoryLine("a", 1, "L1")
HR == HistoryLine("a", 1, "R1")
H2 == HistoryLine("a", 2, "S2")
HB == HistoryLine("b", 3, "T3")
HZ == HistoryLine("a", 0, "zero")

\* The local file of session s1: absent, a prefix of its history, or such a
\* prefix followed by the torn line of an interrupted append.
InitLocalP1 ==
    {Absent} \cup {File(q) : q \in Prefixes(LocalHistory)}
             \cup {File(Append(SubSeq(LocalHistory, 1, MaxLen), Malformed))}
InitRemoteP1 == {Absent} \cup UNION {{Written(q) : q \in Prefixes(h)} : h \in RemoteHistories}

\* The second path: nothing, a second local transcript of session s1, or a
\* session s2 that only the remote holds.
InitP2 == {<<Absent, Absent>>, <<File(<<EA>>), Absent>>, <<Absent, Written(<<EF>>)>>}

\* A store that holds sessions holds a history index
HistoryOf(files, lines) == IF \E p \in Paths : files[p].ex THEN File(lines) ELSE Absent

NoSessions == <<>>

\* The stores, the transport and the invocations before the first command
InitSync ==
    /\ has_remote \in BOOLEAN
    /\ retention \in Retentions
    /\ status = [p \in Procs |-> "idle"]
    /\ kind = [p \in Procs |-> "none"]
    /\ lockHolders = {}
    /\ runs = 0
    /\ \E a \in InitLocalP1, r \in InitRemoteP1, b \in InitP2 :
          /\ local = [p \in Paths |-> IF p = "p1" THEN a ELSE IF p = "p2" THEN b[1] ELSE Absent]
          /\ originMain = Tree([p \in Paths |-> IF p = "p1" THEN r
                                                 ELSE IF p = "p2" THEN b[2] ELSE Absent],
                               HistoryOf([p \in Paths |-> IF p = "p1" THEN r
                                                          ELSE IF p = "p2" THEN b[2] ELSE Absent],
                                         <<HR, H2>>))
    /\ localHist = HistoryOf(local, <<HB, HL, HZ>>)
    /\ \E base \in {IF has_remote THEN EmptyTree ELSE originMain} :
          /\ branches = (MainBranch :> base)
          /\ work = base
          /\ synced = (base = originMain)
    /\ head = MainBranch
    /\ originBranches = {}
    /\ localCommits = FALSE
    /\ aged = {}
    /\ walk \in IF local["p2"].ex THEN WalkOrders
               ELSE {<<"p1", "p1-conflict", "p2", "p2-conflict">>}
    /\ pc = "idle"
    /\ main_branch = MainBranch
    /\ temp_branch = "none"
    /\ local_sessions = NoSessions
    /\ remote_sessions = NoSessions
    /\ temp_branch_sessions = NoSessions
    /\ conflicts = <<>>
    /\ current_local_sessions = NoSessions
    /\ sync_repo_sessions = NoSessions
    /\ wb = 0
    /\ journal = <<>>
    /\ faults = 0
    /\ toolWrites = 0
    /\ pre = local
    /\ toolLog = NoLog
    /\ toolLate = NoLog
    /\ toolHist = <<>>
    /\ history_entries = <<>>
    /\ idem = NoIdem
    /\ ended = <<>>
    /\ push_error = NoError

Init == InitSync /\ call = NoCall /\ ret = NoRet

\* ------------------------------------------------------------ the sync lock
\* SyncLock::acquire: try_lock_exclusive succeeds when no other open file
\* holds the lock, and fails at once otherwise.
\* (a lock that never refuses, the fault the exclusion property must detect)
try_lock_shared(p) == TRUE

try_lock_exclusive(p) == lockHolders = {}

\* Drop for SyncLock: closing the file releases the lock.
\* (a lock that outlives its guard, the fault the release property must detect)
keep_lock(p) == lockHolders

drop_lock(p) == lockHolders \ {p}

\* Every return of pull_history / push_history drops _lock.
Return(p, result) ==
    /\ status' = [status EXCEPT ![p] = result]
    /\ lockHolders' = drop_lock(p)
    /\ pc' = "idle"
    /\ ended' = Append(ended, result)
    /\ idem' = IF result = "ok" /\ kind[p] = "pull"
               THEN IF idem.n = 0 THEN [n |-> 1, local |-> local, hist |-> localHist]
                    ELSE [idem EXCEPT !.n = @ + 1]
               ELSE NoIdem
    /\ UNCHANGED <<kind, runs>>

Running(k, step) == status[Main] = "running" /\ kind[Main] = k /\ pc = step

Goto(step) == pc' = step /\ UNCHANGED lockVars

\* A step in which the environment fails when `failed` holds
Fault(failed) ==
    /\ failed => faults < MaxFaults
    /\ faults' = IF failed THEN faults + 1 ELSE faults

\* ------------------------------------------------------------ scm operations
IsTemp(b) == \E i \in DOMAIN TempNames : TempNames[i] = b

Dirty == work # branches[head]

\* checkout: refused when uncommitted changes would be overwritten
CanCheckout(b) ==
    /\ b \in DOMAIN branches
    /\ (~Dirty \/ branches[b] = branches[head])

CheckedOut(b) == IF Dirty THEN work ELSE branches[b]

Without(f, names) == [b \in DOMAIN f \ names |-> f[b]]

\* Writing the sessions of a list into a directory, one after the other
RECURSIVE write_all(_, _)
write_all(files, sessions) ==
    IF sessions = <<>> THEN files
    ELSE write_all([files EXCEPT ![Head(sessions).file_path] = write_to_file(Head(sessions))],
                   Tail(sessions))

\* ------------------------------------------------------------- pull_history
\* SyncLock::acquire at the head of pull_history and push_history
Start(p, k) ==
    /\ status[p] # "running"
    /\ runs < MaxRuns
    /\ IF try_lock_exclusive(p)
       THEN /\ lockHolders' = lockHolders \cup {p}
            /\ status' = [status EXCEPT ![p] = "running"]
            /\ kind' = [kind EXCEPT ![p] = k]
            /\ runs' = runs + 1
            /\ pc' = "load"
            /\ temp_branch' = "none"
            /\ local_sessions' = NoSessions
            /\ remote_sessions' = NoSessions
            /\ temp_branch_sessions' = NoSessions
            /\ conflicts' = <<>>
            /\ current_local_sessions' = NoSessions
            /\ sync_repo_sessions' = NoSessions
            /\ wb' = 0
            /\ pre' = local
            /\ toolLog' = NoLog
            /\ toolLate' = NoLog
            /\ toolHist' = <<>>
            /\ idem' = IF k = "pull" THEN idem ELSE NoIdem
            /\ UNCHANGED main_branch
       ELSE /\ status' = [status EXCEPT ![p] = "busy"]
            /\ UNCHANGED <<kind, lockHolders, runs, pullVars, pre, toolLog, toolLate, toolHist, idem>>
    /\ UNCHANGED <<storeVars, repoVars, walkVars, mergeVars, confVars, fnVars, push_error, faults, journal, toolWrites, ended>>

\* SyncState::load .. cleanup_old_temp_branches .. main_branch
Prune ==
    /\ Running("pull", "load")
    /\ \E remote_ok \in BOOLEAN, by_arg \in BOOLEAN :
          LET old == IF retention = 0 THEN {}
                     ELSE {b \in DOMAIN branches : IsTemp(b) /\ b \in aged}
              deleted == {b \in old : b # head}
          IN  /\ Fault(~remote_ok /\ has_remote /\ old \cap originBranches # {})
              /\ branches' = Without(branches, deleted)
              /\ originBranches' = IF has_remote /\ remote_ok
                                   THEN originBranches \ old ELSE originBranches
              /\ main_branch' = IF by_arg THEN MainBranch ELSE head
    /\ Goto("create_branch")
    /\ UNCHANGED <<storeVars, head, work, originMain, synced, localCommits, aged, walkVars, mergeVars,
                   confVars, fnVars, push_error, temp_branch, local_sessions, remote_sessions,
                   temp_branch_sessions, conflicts, current_local_sessions,
                   sync_repo_sessions, wb, journal, obsVars, endVars>>

\* repo.create_branch(&temp_branch): a branch at the commit of HEAD
CreateBranch ==
    /\ Running("pull", "create_branch")
    /\ temp_branch' = TempNames[runs]
    /\ branches' = (TempNames[runs] :> branches[head]) @@ branches
    /\ Goto("checkout_temp")
    /\ UNCHANGED <<storeVars, head, work, originMain, originBranches, synced, localCommits,
                   aged, walkVars, mergeVars, confVars, fnVars, push_error, faults, main_branch, local_sessions, remote_sessions,
                   temp_branch_sessions, conflicts, current_local_sessions,
                   sync_repo_sessions, wb, journal, obsVars, endVars>>

\* repo.checkout(&temp_branch)
CheckoutTemp ==
    /\ Running("pull", "checkout_temp")
    /\ CanCheckout(temp_branch)
    /\ work' = CheckedOut(temp_branch)
    /\ head' = temp_branch
    /\ Goto("stage")
    /\ UNCHANGED <<storeVars, branches, originMain, originBranches, synced, localCommits,
                   aged, walkVars, mergeVars, confVars, fnVars, push_error, faults, main_branch, temp_branch, local_sessions,
                   remote_sessions, temp_branch_sessions, conflicts, current_local_sessions,
                   sync_repo_sessions, wb, journal, obsVars, endVars>>

\* STEP 2: the first snapshot of the local store, written file by file into the
\* working tree, and the local history index merged into the transport's.
StageLocal ==
    /\ Running("pull", "stage")
    /\ local_sessions' = discover_in(local, walk)
    /\ work' = Tree(write_all(work.files, local_sessions'),
                    IF localHist.ex
                    THEN merge_history_files(localHist, work.hist, "TargetFirst")
                    ELSE work.hist)
    /\ toolLog' = NoLog
    /\ Goto("stage_commit")
    /\ UNCHANGED <<storeVars, branches, head, originMain, originBranches, synced,
                   localCommits, aged, walkVars, mergeVars, confVars, fnVars, push_error, faults, main_branch, temp_branch,
                   remote_sessions, temp_branch_sessions, conflicts, current_local_sessions,
                   sync_repo_sessions, wb, journal, toolWrites, pre, toolLate, toolHist, endVars>>

\* (a commit that records nothing, the fault the save-before-fetch property
\* must detect)
commit_nothing == branches

\* stage_all, has_changes, commit: the working tree becomes the tree of HEAD
commit_head == [branches EXCEPT ![head] = work]

StageCommit ==
    /\ Running("pull", "stage_commit")
    /\ branches' = commit_head
    /\ localCommits' = (localCommits \/ (head = MainBranch /\ Dirty))
    /\ Goto("push_temp")
    /\ UNCHANGED <<storeVars, head, work, originMain, originBranches, synced, aged,
                   walkVars, mergeVars, confVars, fnVars, push_error, faults, main_branch, temp_branch, local_sessions,
                   remote_sessions, temp_branch_sessions, conflicts, current_local_sessions,
                   sync_repo_sessions, wb, journal, obsVars, endVars>>

\* STEP 3: repo.push("origin", &temp_branch); a failure is only reported
PushTemp ==
    /\ Running("pull", "push_temp")
    /\ \E pushed \in BOOLEAN :
          /\ Fault(~pushed /\ has_remote)
          /\ originBranches' = IF has_remote /\ pushed
                               THEN originBranches \cup {temp_branch} ELSE originBranches
    /\ Goto("checkout_main")
    /\ UNCHANGED <<storeVars, branches, head, work, originMain, synced, localCommits, aged,
                   walkVars, mergeVars, confVars, fnVars, push_error, main_branch, temp_branch, local_sessions,
                   remote_sessions, temp_branch_sessions, conflicts, current_local_sessions,
                   sync_repo_sessions, wb, journal, obsVars, endVars>>

\* STEP 4: repo.checkout(&main_branch)
CheckoutMain ==
    /\ Running("pull", "checkout_main")
    /\ CanCheckout(main_branch)
    /\ work' = CheckedOut(main_branch)
    /\ head' = main_branch
    /\ Goto("fetch")
    /\ UNCHANGED <<storeVars, branches, originMain, originBranches, synced, localCommits,
                   aged, walkVars, mergeVars, confVars, fnVars, push_error, faults, main_branch, temp_branch, local_sessions,
                   remote_sessions, temp_branch_sessions, conflicts, current_local_sessions,
                   sync_repo_sessions, wb, journal, obsVars, endVars>>

\* repo.fetch and repo.pull: a fast-forward of main to origin/main when there
\* is one to make; every failure is only reported.
CanFastForward ==
    has_remote /\ head = MainBranch /\ ~synced /\ ~localCommits /\ ~Dirty

\* (a pull from origin whose failure is returned with `?`, the fault the
\* best-effort property must detect)
FetchPullAborts ==
    /\ Running("pull", "fetch")
    /\ \/ /\ CanFastForward
          /\ Fault(TRUE)
          /\ Return(Main, "error")
          /\ UNCHANGED <<branches, work, synced>>
       \/ /\ Fault(FALSE)
          /\ IF CanFastForward
             THEN /\ branches' = [branches EXCEPT ![MainBranch] = originMain]
                  /\ work' = originMain
                  /\ synced' = TRUE
                  /\ idem' = NoIdem
             ELSE UNCHANGED <<branches, work, synced, idem>>
          /\ Goto("discover")
          /\ UNCHANGED ended
    /\ UNCHANGED <<storeVars, head, originMain, originBranches, localCommits, aged,
                   walkVars, mergeVars, confVars, fnVars, push_error, main_branch, temp_branch, local_sessions,
                   remote_sessions, temp_branch_sessions, conflicts, current_local_sessions,
                   sync_repo_sessions, wb, journal, obsVars>>

FetchPull ==
    /\ Running("pull", "fetch")
    /\ \E pulled \in BOOLEAN :
          /\ Fault(~pulled /\ CanFastForward)
          /\ IF pulled /\ CanFastForward
             THEN /\ branches' = [branches EXCEPT ![MainBranch] = originMain]
                  /\ work' = originMain
                  /\ synced' = TRUE
                  /\ idem' = NoIdem
             ELSE UNCHANGED <<branches, work, synced, idem>>
    /\ Goto("discover")
    /\ UNCHANGED <<storeVars, head, originMain, originBranches, localCommits, aged,
                   walkVars, mergeVars, confVars, fnVars, push_error, main_branch, temp_branch, local_sessions,
                   remote_sessions, temp_branch_sessions, conflicts, current_local_sessions,
                   sync_repo_sessions, wb, journal, obsVars, ended>>

\* (a discovery that stays on the safety branch, the fault the
\* written-on-main property must detect)
DiscoverStaysOnSafety ==
    /\ Running("pull", "discover")
    /\ CanCheckout(temp_branch)
    /\ remote_sessions' = discover_in(work.files, walk)
    /\ temp_branch_sessions' = discover_in(CheckedOut(temp_branch).files, walk)
    /\ work' = CheckedOut(temp_branch)
    /\ head' = temp_branch
    /\ Goto("detect")
    /\ UNCHANGED <<storeVars, branches, originMain, originBranches, synced, localCommits,
                   aged, walkVars, mergeVars, confVars, fnVars, push_error, faults, main_branch, temp_branch,
                   local_sessions, conflicts, current_local_sessions, sync_repo_sessions,
                   wb, journal, obsVars, endVars>>

\* STEP 5: discover the sessions of main, check the safety branch out, discover
\* its sessions, check main out again.
Discover ==
    /\ Running("pull", "discover")
    /\ CanCheckout(temp_branch)
    /\ remote_sessions' = discover_in(work.files, walk)
    /\ temp_branch_sessions' = discover_in(CheckedOut(temp_branch).files, walk)
    /\ Goto("detect")
    /\ UNCHANGED <<storeVars, repoVars, walkVars, mergeVars, confVars, fnVars, push_error, faults, main_branch, temp_branch,
                   local_sessions, conflicts, current_local_sessions, sync_repo_sessions,
                   wb, journal, obsVars, endVars>>

\* The second checkout fails: the error returns with the safety branch checked out
DiscoverFailBack ==
    /\ Running("pull", "discover")
    /\ CanCheckout(temp_branch)
    /\ work' = CheckedOut(temp_branch)
    /\ head' = temp_branch
    /\ Fault(TRUE)
    /\ Return(Main, "error")
    /\ UNCHANGED <<storeVars, branches, originMain, originBranches, synced, localCommits,
                   aged, walkVars, mergeVars, confVars, fnVars, push_error, main_branch, temp_branch, local_sessions,
                   remote_sessions, temp_branch_sessions, conflicts, current_local_sessions,
                   sync_repo_sessions, wb, journal, obsVars>>

\* detector.detect(&temp_branch_sessions, &remote_sessions)
Detect ==
    /\ Running("pull", "detect")
    /\ conflicts' = detect(temp_branch_sessions, remote_sessions)
    /\ Goto("confirm")
    /\ UNCHANGED <<storeVars, repoVars, walkVars, mergeVars, confVars, fnVars, push_error, faults, main_branch, temp_branch,
                   local_sessions, remote_sessions, temp_branch_sessions,
                   current_local_sessions, sync_repo_sessions, wb, journal, obsVars, endVars>>

\* cleanup_temp_branch: nothing when the branch is retained; otherwise the
\* remote and the local deletion, the failure of either only logged.
\* (a cleanup that ignores `force`, the fault the declined-pull property must
\* detect)
cleanup_unforced(force) ==
    IF retention > 0 THEN branches
    ELSE IF head # temp_branch THEN Without(branches, {temp_branch})
    ELSE branches

\* (a cleanup that deletes whatever the retention, the fault the retirement
\* property must detect)
cleanup_forced(force) ==
    IF head # temp_branch THEN Without(branches, {temp_branch}) ELSE branches

branches_after_cleanup(force) ==
    IF retention > 0 /\ ~force THEN branches
    ELSE IF head # temp_branch THEN Without(branches, {temp_branch})
    ELSE branches

origin_after_cleanup(force, remote_ok) ==
    IF retention > 0 /\ ~force THEN originBranches
    ELSE IF has_remote /\ remote_ok THEN originBranches \ {temp_branch}
    ELSE originBranches

\* The confirmation is given, or the pull is not interactive
Confirm ==
    /\ Running("pull", "confirm")
    /\ Goto("smart_merge")
    /\ UNCHANGED <<storeVars, repoVars, walkVars, mergeVars, confVars, fnVars, push_error, faults, main_branch, temp_branch,
                   local_sessions, remote_sessions, temp_branch_sessions, conflicts,
                   current_local_sessions, sync_repo_sessions, wb, journal, obsVars, endVars>>

\* The confirmation is refused: forced cleanup, Ok(())
Decline ==
    /\ Running("pull", "confirm")
    /\ \E remote_ok \in BOOLEAN :
          /\ Fault(~remote_ok /\ origin_after_cleanup(TRUE, TRUE) # originBranches)
          /\ branches' = branches_after_cleanup(TRUE)
          /\ originBranches' = origin_after_cleanup(TRUE, remote_ok)
    /\ Return(Main, "declined")
    /\ UNCHANGED <<storeVars, head, work, originMain, synced, localCommits, aged, walkVars, mergeVars,
                   confVars, fnVars, push_error, main_branch, temp_branch, local_sessions, remote_sessions,
                   temp_branch_sessions, conflicts, current_local_sessions,
                   sync_repo_sessions, wb, journal, obsVars>>

\* The loop over detector.conflicts_mut(): the merge of the two sessions the
\* maps hold for the id, written at the path of the local one; a conflict
\* whose merge fails is left for the fallback.
RECURSIVE smart_merge_all(_, _, _, _, _)
smart_merge_all(files, cs, locals, remotes, failed) ==
    IF cs = <<>> THEN files
    ELSE IF Head(cs) \in failed
    THEN smart_merge_all(files, Tail(cs), locals, remotes, failed)
    ELSE LET local_session == MapGet(locals, Head(cs).session_id)
             remote_session == MapGet(remotes, Head(cs).session_id)
             merged_session == ConversationSession(Head(cs).session_id,
                                   merge_conversations(local_session, remote_session),
                                   Head(cs).local_file)
         IN  smart_merge_all([files EXCEPT ![local_session.file_path] =
                                  write_to_file(merged_session)],
                             Tail(cs), locals, remotes, failed)

\* remote_sessions.iter().find(|s| s.session_id == conflict.session_id)
find_session(sessions, id) ==
    sessions[CHOOSE i \in DOMAIN sessions :
        /\ sessions[i].session_id = id
        /\ \A j \in DOMAIN sessions : sessions[j].session_id = id => i <= j]

\* Non-interactive: keep both versions. The remote session is written at the
\* path resolve_keep_both names.
RECURSIVE keep_both_all(_, _, _, _)
keep_both_all(files, cs, remotes, failed) ==
    IF cs = <<>> THEN files
    ELSE IF Head(cs) \in failed /\ HasId(remotes, Head(cs).session_id)
    THEN keep_both_all([files EXCEPT ![resolve_keep_both(Head(cs))] =
                           write_to_file(find_session(remotes, Head(cs).session_id))],
                       Tail(cs), remotes, failed)
    ELSE keep_both_all(files, Tail(cs), remotes, failed)

\* try_smart_merge sets the resolution of the conflicts it merges
resolved(cs, failed) ==
    [i \in DOMAIN cs |-> IF cs[i] \in failed THEN cs[i]
                         ELSE [cs[i] EXCEPT !.resolution = "SmartMerge"]]

\* The smart merge of every conflict and the fallback for those that failed.
\* The timestamp in the name of a conflict copy is that of the run: the tree
\* holds no copy from an earlier run. The resolution at a terminal belongs to
\* interactive_conflict; the run has none.
SmartMerge ==
    /\ Running("pull", "smart_merge")
    /\ \E failed \in SUBSET Range(conflicts) :
          /\ Fault(failed # {})
          /\ failed # {} => \A p \in Paths \ SessionPaths : ~work.files[p].ex
          /\ \A c \in failed : c.remote_file \in SessionPaths
          /\ work' = Tree(keep_both_all(smart_merge_all(work.files, conflicts,
                                                        temp_branch_sessions,
                                                        remote_sessions, failed),
                                        conflicts, remote_sessions, failed),
                          work.hist)
          /\ conflicts' = resolved(conflicts, failed)
    /\ Goto("nonconflict")
    /\ UNCHANGED <<storeVars, branches, head, originMain, originBranches, synced,
                   localCommits, aged, walkVars, mergeVars, confVars, fnVars, push_error, main_branch, temp_branch,
                   local_sessions, remote_sessions, temp_branch_sessions,
                   current_local_sessions, sync_repo_sessions, wb, journal, obsVars, endVars>>

\* The loop over temp_branch_sessions of the non-conflicting pass
InConflict(cs, id) == \E i \in DOMAIN cs : cs[i].session_id = id

\* (a pass that copies every session of the safety branch, the fault the
\* per-relationship property must detect)
RECURSIVE copy_every_session(_, _, _, _)
copy_every_session(files, locals, remotes, cs) ==
    IF locals = <<>> THEN files
    ELSE copy_every_session([files EXCEPT ![Head(locals).file_path] = write_to_file(Head(locals))],
                            Tail(locals), remotes, cs)

RECURSIVE nonconflict_pass(_, _, _, _)
nonconflict_pass(files, locals, remotes, cs) ==
    IF locals = <<>> THEN files
    ELSE LET local_session == Head(locals)
             dest_path == local_session.file_path
             copied == [files EXCEPT ![dest_path] = write_to_file(local_session)]
             after ==
                 IF InConflict(cs, local_session.session_id) THEN files
                 ELSE IF HasId(remotes, local_session.session_id)
                 THEN LET remote == MapGet(remotes, local_session.session_id)
                          relationship == analyze_session_relationship(local_session, remote)
                      IN  IF relationship = "RemoteIsPrefix" THEN copied
                          ELSE IF relationship = "Diverged"
                          THEN [files EXCEPT ![dest_path] =
                                   File(inline_merge(local_session, remote))]
                          ELSE files
                 ELSE copied
         IN  nonconflict_pass(after, Tail(locals), remotes, cs)

\* (a pass that also writes the remote sessions into the local store, the
\* fault the late-write property must detect)
NonConflictWritesLocal ==
    /\ Running("pull", "nonconflict")
    /\ work' = Tree(nonconflict_pass(work.files, temp_branch_sessions, remote_sessions,
                                     conflicts), work.hist)
    /\ local' = write_all(local, remote_sessions)
    /\ Goto("commit_main")
    /\ UNCHANGED <<localHist, branches, head, originMain, originBranches, synced,
                   localCommits, aged, walkVars, mergeVars, confVars, fnVars, push_error, faults, main_branch, temp_branch,
                   local_sessions, remote_sessions, temp_branch_sessions, conflicts,
                   current_local_sessions, sync_repo_sessions, wb, journal, obsVars, endVars>>

NonConflict ==
    /\ Running("pull", "nonconflict")
    /\ work' = Tree(nonconflict_pass(work.files, temp_branch_sessions, remote_sessions,
                                     conflicts), work.hist)
    /\ Goto("commit_main")
    /\ UNCHANGED <<storeVars, branches, head, originMain, originBranches, synced,
                   localCommits, aged, walkVars, mergeVars, confVars, fnVars, push_error, faults, main_branch, temp_branch,
                   local_sessions, remote_sessions, temp_branch_sessions, conflicts,
                   current_local_sessions, sync_repo_sessions, wb, journal, obsVars, endVars>>

\* stage_all, has_changes, commit on the main branch
CommitMain ==
    /\ Running("pull", "commit_main")
    /\ branches' = commit_head
    /\ localCommits' = (localCommits \/ (head = MainBranch /\ Dirty))
    /\ Goto("reread")
    /\ UNCHANGED <<storeVars, head, work, originMain, originBranches, synced, aged,
                   walkVars, mergeVars, confVars, fnVars, push_error, faults, main_branch, temp_branch, local_sessions,
                   remote_sessions, temp_branch_sessions, conflicts, current_local_sessions,
                   sync_repo_sessions, wb, journal, obsVars, endVars>>

\* STEP 6: the local store is read again, then the transport working tree
Reread ==
    /\ Running("pull", "reread")
    /\ current_local_sessions' = discover_in(local, walk)
    /\ sync_repo_sessions' = discover_in(work.files, walk)
    /\ wb' = 1
    /\ Goto("writeback")
    /\ UNCHANGED <<storeVars, repoVars, walkVars, mergeVars, confVars, fnVars, push_error, faults, main_branch, temp_branch,
                   local_sessions, remote_sessions, temp_branch_sessions, conflicts,
                   journal, obsVars, endVars>>

\* One round of the write-back loop: the missing entries are appended when the
\* map of the re-read store holds the session id, the whole file is written
\* when it does not.
write_back(store, current, sync_session) ==
    LET local_path == sync_session.file_path IN
    IF HasId(current, sync_session.session_id)
    THEN LET to_append == entries_to_append(MapGet(current, sync_session.session_id),
                                            sync_session)
         IN  IF to_append # <<>>
             THEN [store EXCEPT ![local_path] = append_entries_to_file(store[local_path], to_append)]
             ELSE store
    ELSE [store EXCEPT ![local_path] = write_to_file(sync_session)]

WriteBack ==
    /\ Running("pull", "writeback")
    /\ wb <= Len(sync_repo_sessions)
    /\ local' = write_back(local, current_local_sessions, sync_repo_sessions[wb])
    /\ wb' = wb + 1
    /\ Goto("writeback")
    /\ UNCHANGED <<localHist, repoVars, walkVars, mergeVars, confVars, fnVars, push_error, faults, main_branch, temp_branch,
                   local_sessions, remote_sessions, temp_branch_sessions, conflicts,
                   current_local_sessions, sync_repo_sessions, journal, obsVars, endVars>>

\* STEP 6b: the transport's history index merged into the local one.
\* merge_history_files reads the two files, merges and sorts their lines ...
HistMerge ==
    /\ Running("pull", "writeback")
    /\ wb > Len(sync_repo_sessions)
    /\ IF work.hist.ex
       THEN /\ history_entries' = merge_history_files(work.hist, localHist, "TargetFirst").lines
            /\ Goto("hist_write")
       ELSE /\ UNCHANGED history_entries
            /\ Goto("cleanup")
    /\ UNCHANGED <<storeVars, repoVars, walkVars, confVars, fnVars, push_error, faults, main_branch, temp_branch,
                   local_sessions, remote_sessions, temp_branch_sessions, conflicts,
                   current_local_sessions, sync_repo_sessions, wb, journal, obsVars, endVars>>

\* ... and then creates the target anew and writes the lines it holds
HistWrite ==
    /\ Running("pull", "hist_write")
    /\ localHist' = File(history_entries)
    /\ history_entries' = <<>>
    /\ Goto("cleanup")
    /\ UNCHANGED <<local, repoVars, walkVars, confVars, fnVars, push_error, faults, main_branch, temp_branch,
                   local_sessions, remote_sessions, temp_branch_sessions, conflicts,
                   current_local_sessions, sync_repo_sessions, wb, journal, obsVars, endVars>>

OperationRecord(type, branch) == [type |-> type, branch |-> branch]

\* history.add_operation(record): a failure to save is logged and ignored
add_operation(record, saved) == IF saved THEN Append(journal, record) ELSE journal

\* STEP 7, the operation record, Ok(())
Finish ==
    /\ Running("pull", "cleanup")
    /\ \E remote_ok \in BOOLEAN, saved \in BOOLEAN :
          /\ Fault(~saved \/ (~remote_ok /\ origin_after_cleanup(FALSE, TRUE) # originBranches))
          /\ branches' = branches_after_cleanup(FALSE)
          /\ originBranches' = origin_after_cleanup(FALSE, remote_ok)
          /\ journal' = add_operation(OperationRecord("pull", main_branch), saved)
    /\ Return(Main, "ok")
    /\ UNCHANGED <<storeVars, head, work, originMain, synced, localCommits, aged, walkVars, mergeVars,
                   confVars, fnVars, push_error, main_branch, temp_branch, local_sessions, remote_sessions,
                   temp_branch_sessions, conflicts, current_local_sessions,
                   sync_repo_sessions, wb, obsVars>>

\* The steps of pull_history whose error is returned with `?`
PullFailPoints ==
    {"load", "create_branch", "checkout_temp", "stage", "stage_commit", "checkout_main",
     "discover", "confirm", "nonconflict", "commit_main", "reread", "writeback", "hist_write"}

\* (an error path that tears the safety branch down, the fault the
\* safety-branch property must detect)
FailTearingDown ==
    /\ status[Main] = "running" /\ kind[Main] = "pull"
    /\ pc \in PullFailPoints
    /\ Fault(TRUE)
    /\ Return(Main, "error")
    /\ branches' = Without(branches, {temp_branch})
    /\ UNCHANGED <<storeVars, head, work, originMain, originBranches, synced, localCommits,
                   aged, walkVars, mergeVars, confVars, fnVars, push_error, main_branch, temp_branch,
                   local_sessions, remote_sessions, temp_branch_sessions, conflicts,
                   current_local_sessions, sync_repo_sessions, wb, journal, obsVars>>

Fail ==
    /\ status[Main] = "running" /\ kind[Main] = "pull"
    /\ pc \in PullFailPoints
    /\ Fault(TRUE)
    /\ Return(Main, "error")
    /\ UNCHANGED <<storeVars, repoVars, walkVars, mergeVars, confVars, fnVars, push_error, main_branch, temp_branch,
                   local_sessions, remote_sessions, temp_branch_sessions, conflicts,
                   current_local_sessions, sync_repo_sessions, wb, journal, obsVars>>

\* ------------------------------------------------------------- push_history
\* stage_all, has_changes, the confirmation, commit
PushCommit ==
    /\ Running("push", "load")
    /\ branches' = commit_head
    /\ localCommits' = (localCommits \/ (head = MainBranch /\ Dirty))
    /\ Goto(IF has_remote THEN "push_remote"
            ELSE IF Dirty THEN "push_record" ELSE "push_nothing")
    /\ UNCHANGED <<storeVars, head, work, originMain, originBranches, synced, aged,
                   walkVars, mergeVars, confVars, fnVars, push_error, faults, main_branch, temp_branch, local_sessions,
                   remote_sessions, temp_branch_sessions, conflicts, current_local_sessions,
                   sync_repo_sessions, wb, journal, obsVars, endVars>>

\* The confirmation of a push with changes is refused: Ok(())
PushDecline ==
    /\ Running("push", "load")
    /\ Dirty
    /\ Return(Main, "declined")
    /\ UNCHANGED <<storeVars, repoVars, walkVars, mergeVars, confVars, fnVars, push_error, faults, main_branch, temp_branch,
                   local_sessions, remote_sessions, temp_branch_sessions, conflicts,
                   current_local_sessions, sync_repo_sessions, wb, journal, obsVars>>

\* repo.push("origin", &branch_name) succeeds: a fast-forward of the remote branch
PushRemote ==
    /\ Running("push", "push_remote")
    /\ IF head = MainBranch
       THEN /\ synced
            /\ originMain' = branches[MainBranch]
            /\ localCommits' = FALSE
            /\ UNCHANGED originBranches
       ELSE /\ originBranches' = originBranches \cup {head}
            /\ UNCHANGED <<originMain, localCommits>>
    /\ Goto("push_record")
    /\ UNCHANGED <<storeVars, branches, head, work, synced, aged, walkVars, mergeVars, confVars, fnVars, push_error, faults,
                   main_branch, temp_branch, local_sessions, remote_sessions,
                   temp_branch_sessions, conflicts, current_local_sessions,
                   sync_repo_sessions, wb, journal, obsVars, endVars>>

\* The message of a failed repo.push, as the set of the phrases it contains
RejectionPhrases == {"non-fast-forward", "fetch first", "rejected", "failed to push"}
PushMessages ==
    {{"non-fast-forward"}, {"fetch first"}, {"rejected"}, {"failed to push"},
     {"rejected", "non-fast-forward"}, {"timed out"}, {"permission denied"}, {}}

contains(error_msg, phrase) == phrase \in error_msg

\* (a classifier that knows one phrase only, the fault the push-failure
\* property must detect)
push_failure_one_phrase(error_msg) ==
    IF contains(error_msg, "rejected")
    THEN [class |-> "rejected", cause |-> {}]
    ELSE [class |-> "propagated", cause |-> error_msg]

\* The Err arm of the match on repo.push: "Push rejected: remote has new
\* commits. Run 'claude-code-sync pull' first." when the message contains one
\* of the four phrases, the transport's error with the context "Failed to
\* push to remote" otherwise
push_failure(error_msg) ==
    IF \/ contains(error_msg, "non-fast-forward")
       \/ contains(error_msg, "fetch first")
       \/ contains(error_msg, "rejected")
       \/ contains(error_msg, "failed to push")
    THEN [class |-> "rejected", cause |-> {}]
    ELSE [class |-> "propagated", cause |-> error_msg]

\* (a failed push that writes the operation record all the same, the fault
\* the journal property must detect)
PushFailsRecorded ==
    /\ Running("push", "push_remote")
    /\ Fault(TRUE)
    /\ \E error_msg \in PushMessages :
          /\ push_error' = [returned |-> push_failure(error_msg), raised |-> error_msg]
          /\ Return(Main, IF push_failure(error_msg).class = "rejected"
                          THEN "rejected" ELSE "error")
    /\ journal' = Append(journal, OperationRecord("push", head))
    /\ UNCHANGED <<storeVars, repoVars, walkVars, mergeVars, confVars, fnVars, main_branch, temp_branch,
                   local_sessions, remote_sessions, temp_branch_sessions, conflicts,
                   current_local_sessions, sync_repo_sessions, wb, obsVars>>

\* repo.push fails
PushFails ==
    /\ Running("push", "push_remote")
    /\ Fault(TRUE)
    /\ \E error_msg \in PushMessages :
          /\ push_error' = [returned |-> push_failure(error_msg), raised |-> error_msg]
          /\ Return(Main, IF push_failure(error_msg).class = "rejected"
                          THEN "rejected" ELSE "error")
    /\ UNCHANGED <<storeVars, repoVars, walkVars, mergeVars, confVars, fnVars, main_branch, temp_branch,
                   local_sessions, remote_sessions, temp_branch_sessions, conflicts,
                   current_local_sessions, sync_repo_sessions, wb, journal, obsVars>>

\* The operation record of a push, Ok(()); nothing is recorded when there was
\* neither a remote nor a change
PushRecord ==
    /\ status[Main] = "running" /\ kind[Main] = "push"
    /\ pc \in {"push_record", "push_nothing"}
    /\ \E saved \in BOOLEAN :
          /\ Fault(~saved)
          /\ saved \/ pc = "push_record"
          /\ journal' = IF pc = "push_record"
                        THEN add_operation(OperationRecord("push", head), saved) ELSE journal
    /\ Return(Main, "ok")
    /\ UNCHANGED <<storeVars, repoVars, walkVars, mergeVars, confVars, fnVars, push_error, main_branch, temp_branch,
                   local_sessions, remote_sessions, temp_branch_sessions, conflicts,
                   current_local_sessions, sync_repo_sessions, wb, obsVars>>

\* SyncState::load, scm::open, FilterConfig::load, stage_all, commit fail
PushFail ==
    /\ Running("push", "load")
    /\ Fault(TRUE)
    /\ Return(Main, "error")
    /\ UNCHANGED <<storeVars, repoVars, walkVars, mergeVars, confVars, fnVars, push_error, main_branch, temp_branch,
                   local_sessions, remote_sessions, temp_branch_sessions, conflicts,
                   current_local_sessions, sync_repo_sessions, wb, journal, obsVars>>

\* ------------------------------------------------------------ the environment
\* The assistant tool appends one entry to a session file of the local store.
\* The write-back has not handled the file at path p yet
BeforeWriteBack(p) ==
    \/ pc = "stage_commit"
    \/ pc = "writeback" /\ \A i \in 1..(wb - 1) : sync_repo_sessions[i].file_path # p

\* An append commutes with every step of pull that neither reads nor writes
\* the local store, and one made before the first snapshot is a longer file
\* of the initial store; it is placed between the first snapshot and the
\* re-read, between two rounds of the write-back and after the last one.
ToolWindow ==
    /\ status[Main] = "running" /\ kind[Main] = "pull"
    /\ pc \in {"stage_commit", "writeback", "cleanup"}

ToolAppend(p) ==
    /\ toolWrites < MaxToolWrites
    /\ ToolWindow
    /\ local[p].ex /\ parses(local[p])
    /\ LET e == ToolEntry(toolWrites + 1, from_file(p, local[p]).session_id) IN
          /\ local' = [local EXCEPT ![p] = File(Append(local[p].lines, e))]
          /\ IF BeforeWriteBack(p)
             THEN toolLog' = [toolLog EXCEPT ![p] = Append(@, e)] /\ UNCHANGED toolLate
             ELSE toolLate' = [toolLate EXCEPT ![p] = Append(@, e)] /\ UNCHANGED toolLog
    /\ toolWrites' = toolWrites + 1
    /\ idem' = NoIdem
    /\ UNCHANGED <<lockVars, localHist, repoVars, walkVars, mergeVars, confVars, fnVars, push_error, faults, pullVars, journal,
                   pre, toolHist, ended>>

\* The assistant tool appends one line to the local history index. An append
\* commutes with every step of pull that neither reads nor writes the index,
\* and one made before the first merge is a longer index of the initial
\* store; it is placed before the last merge reads the index, between that
\* read and the write, and after the write.
HT == HistoryLine("a", 4, "typed")

ToolAppendHistory ==
    /\ toolWrites < MaxToolWrites
    /\ status[Main] = "running" /\ kind[Main] = "pull"
    /\ \/ pc = "writeback" /\ wb > Len(sync_repo_sessions)
       \/ pc \in {"hist_write", "cleanup"}
    /\ localHist' = File(Append(localHist.lines, HT))
    /\ toolHist' = Append(toolHist, HT)
    /\ toolWrites' = toolWrites + 1
    /\ idem' = NoIdem
    /\ UNCHANGED <<lockVars, local, repoVars, walkVars, mergeVars, confVars, fnVars, push_error, faults, pullVars, journal,
                   pre, toolLog, toolLate, ended>>

\* Time passes: a safety branch left behind grows older than the retention window
Age(b) ==
    /\ status[Main] # "running"
    /\ retention > 0
    /\ b \in DOMAIN branches /\ IsTemp(b) /\ b \notin aged
    /\ aged' = aged \cup {b}
    /\ UNCHANGED <<lockVars, storeVars, branches, head, work, originMain, originBranches,
                   synced, localCommits, walkVars, mergeVars, confVars, fnVars, push_error, faults, pullVars, journal, obsVars, endVars>>

Next ==
    \/ \E k \in {"pull", "push"} : Start(Main, k)
    \/ Prune \/ CreateBranch \/ CheckoutTemp \/ StageLocal \/ StageCommit \/ PushTemp
    \/ CheckoutMain \/ FetchPull \/ Discover \/ DiscoverFailBack \/ Detect
    \/ Confirm \/ Decline \/ SmartMerge \/ NonConflict \/ CommitMain
    \/ Reread \/ WriteBack \/ HistMerge \/ HistWrite \/ Finish \/ Fail
    \/ PushCommit \/ PushDecline \/ PushRemote \/ PushFails \/ PushRecord \/ PushFail
    \/ \E p \in Paths : ToolAppend(p)
    \/ ToolAppendHistory
    \/ \E b \in Range(TempNames) : Age(b)

Spec == Init /\ [][Next]_vars

\* ------------------------------------------- the lock under contending processes
\* Several invocations contend for the lock; what an invocation does between
\* acquire and return is left out.
Ends(p, result) ==
    /\ status[p] = "running"
    /\ Return(p, result)
    /\ UNCHANGED <<storeVars, repoVars, walkVars, mergeVars, confVars, fnVars, push_error, faults, main_branch, temp_branch,
                   local_sessions, remote_sessions, temp_branch_sessions, conflicts,
                   current_local_sessions, sync_repo_sessions, wb, journal, obsVars>>

NextLock ==
    \/ \E p \in Procs, k \in {"pull", "push"} : Start(p, k)
    \/ \E p \in Procs, result \in {"ok", "declined", "error"} : Ends(p, result)

\* The lock does not read the stores: they start empty here
InitLock ==
    /\ Init
    /\ ~has_remote /\ retention = 0
    /\ \A p \in Paths : ~local[p].ex /\ ~originMain.files[p].ex

SpecLock == InitLock /\ [][NextLock]_vars

\* ------------------------------------- the analyzer and the mergers, called
\* The analyzer, the detector, the inline union and the history-index merger
\* are functions of their arguments: a behaviour here is one call. The
\* sessions are what from_file yields for files of session s1 whose lines
\* come from FnEntries; no file holds one uuid with two contents.
EN2 == ConversationEntry("file-history-snapshot", NoUuid, "s1", 0, "f1", "x")

FnEntries == {parse_line(e) : e \in {EA, EAx, EC, EN, EN2, EG, EH}}

SeqsUpTo(S, n) == UNION {[1..k -> S] : k \in 0..n}

FnSessions ==
    {ConversationSession("s1", q, "p1") :
        q \in {x \in SeqsUpTo(FnEntries, MaxLen) :
                   \A i, j \in DOMAIN x : x[i].uuid = x[j].uuid => x[i] = x[j] \/ x[i].uuid = NoUuid}}

\* Lines of a history.jsonl: two versions of one key, other keys, lines with
\* a zero timestamp, an empty sessionId and no sessionId
HE == HistoryLine("", 1, "empty")
HM == HistoryLine(NoSid, 2, "missing")
FnHistoryLines == {HL, HR, H2, HB, HZ, HE, HM}
FnHistoryFiles == {Absent} \cup {File(q) : q \in SeqsUpTo(FnHistoryLines, MaxLen)}
MergePriority == {"SourceFirst", "TargetFirst"}

\* Session files: lines as the tool wrote them, with and without a sessionId,
\* of two sessions, and files whose last line is torn
FnLines == {EA, EN, EF}
FnFiles ==
    {Absent} \cup {File(q) : q \in SeqsUpTo(FnLines, MaxLen)}
             \cup {File(Append(q, Malformed)) : q \in SeqsUpTo(FnLines, MaxLen - 1)}
FnStores == [Paths -> {Absent, File(<<>>), File(<<EN, EA>>), File(<<EF>>), File(<<EA, Malformed>>)}]

Calls ==
    {[fn |-> f, local |-> l, remote |-> r] :
        f \in {"analyze", "merge"}, l \in FnSessions, r \in FnSessions}
    \cup {[fn |-> "merge_history", source |-> a, target |-> b, priority |-> pr] :
              a \in FnHistoryFiles, b \in FnHistoryFiles, pr \in MergePriority}
    \cup {[fn |-> "append", file |-> f, entries |-> q] :
              f \in FnFiles, q \in SeqsUpTo({parse_line(e) : e \in {EA, EC, EN}}, MaxLen)}
    \cup {[fn |-> "from_file", path |-> p, file |-> f] : p \in Paths, f \in FnFiles \ {Absent}}
    \cup {[fn |-> "discover", files |-> fs, order |-> o, finish |-> d] :
              fs \in FnStores, o \in WalkOrders, d \in WalkOrders}
    \cup {[fn |-> "write_back", local |-> l, sync |-> r, known |-> k] :
              l \in FnSessions, r \in FnSessions, k \in BOOLEAN}

InitFn ==
    /\ InitSync
    /\ ~has_remote /\ retention = 0
    /\ \A p \in Paths : ~local[p].ex /\ ~originMain.files[p].ex
    /\ call \in Calls
    /\ ret = NoRet

Returns(value) ==
    /\ ret = NoRet
    /\ ret' = value
    /\ UNCHANGED <<lockVars, storeVars, repoVars, walkVars, mergeVars, confVars, faults, pullVars,
                   journal, obsVars, endVars, push_error, call>>

\* analyze_session_relationship(local, remote), and detect on the two sessions
Analyze ==
    /\ call.fn = "analyze"
    /\ Returns([fn |-> "analyze",
                relationship |-> analyze_session_relationship(call.local, call.remote),
                conflicts |-> detect(<<call.local>>, <<call.remote>>)])

\* The inline union of the two sessions, in both orders of the arguments
Merge ==
    /\ call.fn = "merge"
    /\ Returns([fn |-> "merge",
                merged |-> inline_merge(call.local, call.remote),
                swapped |-> inline_merge(call.remote, call.local)])

\* merge_history_files(source, target, priority): the target it writes
MergeHistory ==
    /\ call.fn = "merge_history"
    /\ Returns([fn |-> "merge_history",
                target |-> merge_history_files(call.source, call.target, call.priority)])

\* append_entries_to_file(path, entries): the bytes of the file afterwards
AppendEntries ==
    /\ call.fn = "append"
    /\ Returns([fn |-> "append",
                exists |-> append_entries_to_file(call.file, call.entries).ex,
                bytes |-> append_bytes(bytes_of(call.file), call.entries)])

\* ConversationSession::from_file(path): Ok(session) or Err
FromFile ==
    /\ call.fn = "from_file"
    /\ Returns([fn |-> "from_file",
                result |-> IF parses(call.file)
                           THEN <<from_file(call.path, call.file)>> ELSE <<>>])

\* discover_sessions(base_path, filter): Ok(sessions) or Err
DiscoverSessions ==
    /\ call.fn = "discover"
    /\ Returns([fn |-> "discover",
                result |-> discover_sessions(call.files, call.order, call.finish)])

\* One round of the write-back loop: the local store holds the file of the
\* re-read session when the session is known locally, and no file when not
StoreWith(known, local_session) ==
    [p \in Paths |-> IF known /\ p = local_session.file_path
                     THEN write_to_file(local_session) ELSE Absent]

WriteBackRound ==
    /\ call.fn = "write_back"
    /\ Returns([fn |-> "write_back",
                store |-> write_back(StoreWith(call.known, call.local),
                                     IF call.known THEN <<call.local>> ELSE NoSessions,
                                     call.sync)])

NextFn ==
    \/ Analyze \/ Merge \/ MergeHistory \/ AppendEntries \/ FromFile \/ DiscoverSessions
    \/ WriteBackRound

SpecFn == InitFn /\ [][NextFn]_vars

\* =================================================================== claims
IsPrefix(a, b) == Len(a) <= Len(b) /\ SubSeq(b, 1, Len(a)) = a

\* a is b with some elements left out
RECURSIVE IsSubseq(_, _)
IsSubseq(a, b) ==
    IF a = <<>> THEN TRUE
    ELSE IF b = <<>> THEN FALSE
    ELSE IF Head(a) = Head(b) THEN IsSubseq(Tail(a), Tail(b))
    ELSE IsSubseq(a, Tail(b))

\* The entries of the lines of a file that parse
EntriesOf(f) ==
    LET ok(l) == l.typ # "<malformed>"
        good == SelectSeq(f.lines, ok)
    IN  [i \in DOMAIN good |-> parse_line(good[i])]

Occurrences(id, f) == Cardinality({i \in DOMAIN EntriesOf(f) : Identity(EntriesOf(f)[i]) = id})

PullReturned(results) == kind[Main] = "pull" /\ status[Main] \in results

\* C1: when a pull has returned (successfully, declined or with an error), every
\* session file that the local store held when the pull started still begins
\* with the bytes it held then.
C1_PrefixKept ==
    PullReturned({"ok", "declined", "error"}) =>
        \A p \in Paths : pre[p].ex => local[p].ex /\ IsPrefix(pre[p].lines, local[p].lines)

\* C2: after a successful pull, a file to which the tool appended between the
\* first snapshot and the write-back reads: the lines of the snapshot, the
\* tool's lines, then the transport entries whose identity those lines lack,
\* in transport order (then what the tool appended later).
TransportMissing(p) ==
    LET have == Identities(EntriesOf(File(pre[p].lines \o toolLog[p])))
        lacked(e) == Identity(e) \notin have
    IN  SelectSeq(EntriesOf(work.files[p]), lacked)

C2_ConcurrentAppendsKept ==
    PullReturned({"ok"}) =>
        \A p \in Paths : toolLog[p] # <<>> =>
            local[p].lines = pre[p].lines \o toolLog[p] \o TransportMissing(p) \o toolLate[p]

\* C3: after a successful pull every identity that a local file held at the
\* first snapshot is in that file, the lines it held keep their relative
\* order, and every identity of the transport's copy of a session is in a
\* local file of that session.
LocalFilesOf(id) ==
    {p \in Paths : local[p].ex /\ parses(local[p]) /\ from_file(p, local[p]).session_id = id}

C3_UnionInLocal ==
    PullReturned({"ok"}) =>
        \A p \in Paths :
            /\ pre[p].ex =>
                  /\ Identities(EntriesOf(pre[p])) \subseteq Identities(EntriesOf(local[p]))
                  /\ IsSubseq(pre[p].lines, local[p].lines)
            /\ work.files[p].ex =>
                  \A id \in Identities(EntriesOf(work.files[p])) :
                      \E q \in LocalFilesOf(from_file(p, work.files[p]).session_id) :
                          id \in Identities(EntriesOf(local[q]))

\* C4: after a successful pull, for a local and a remote copy with one session
\* id, every identity of either copy occurs exactly once in the local file.
C4_ExactlyOnce ==
    PullReturned({"ok"}) =>
        \A i \in DOMAIN local_sessions, j \in DOMAIN remote_sessions :
            local_sessions[i].session_id = remote_sessions[j].session_id =>
                \A id \in Identities(local_sessions[i].entries)
                             \cup Identities(remote_sessions[j].entries) :
                    Occurrences(id, local[local_sessions[i].file_path]) = 1

\* C7: a second successful pull in a row, with nothing done in between, leaves
\* every session file and the history index as the first one left them.
C7_Idempotent ==
    idem.n >= 2 => local = idem.local /\ localHist = idem.hist

\* C9: when detect has run, no conflict is recorded for a pair of sessions
\* with one id of which one is a prefix of the other (its uuids are among the
\* other's, and every shared uuid has the same content on both sides).
SharedIdentical(a, b) ==
    \A i \in DOMAIN a.entries, j \in DOMAIN b.entries :
        (a.entries[i].uuid # NoUuid /\ a.entries[i].uuid = b.entries[j].uuid)
            => a.entries[i] = b.entries[j]

PrefixShaped(a, b) ==
    /\ \/ uuids_of(a.entries) \subseteq uuids_of(b.entries)
       \/ uuids_of(b.entries) \subseteq uuids_of(a.entries)
    /\ SharedIdentical(a, b)

ConflictsOfPair(l, r) ==
    {k \in DOMAIN conflicts :
        conflicts[k].local_file = l.file_path /\ conflicts[k].remote_file = r.file_path}

C9_PrefixNoConflict ==
    Running("pull", "confirm") =>
        \A i \in DOMAIN temp_branch_sessions, j \in DOMAIN remote_sessions :
            LET l == temp_branch_sessions[i]
                r == remote_sessions[j]
            IN  (l.session_id = r.session_id /\ PrefixShaped(l, r))
                    => ConflictsOfPair(l, r) = {}

\* C10: when detect has run, exactly one conflict is recorded for the id of a
\* local and a remote session that each hold a uuid the other lacks.
EachHasOwn(l, r) ==
    /\ uuids_of(l.entries) \ uuids_of(r.entries) # {}
    /\ uuids_of(r.entries) \ uuids_of(l.entries) # {}

C10_DivergedOneConflict ==
    Running("pull", "confirm") =>
        \A i \in DOMAIN temp_branch_sessions, j \in DOMAIN remote_sessions :
            LET l == temp_branch_sessions[i]
                r == remote_sessions[j]
            IN  (l.session_id = r.session_id /\ EachHasOwn(l, r))
                    => Cardinality({k \in DOMAIN conflicts :
                                       conflicts[k].session_id = l.session_id}) = 1

\* C5: at most one invocation holds the sync lock at any time, and an
\* invocation that asks while another holds it fails at once ("another sync
\* operation is already running") without getting or disturbing the lock.
C5_Exclusive ==
    [][ /\ Cardinality(lockHolders') <= 1
        /\ \A p \in Procs :
              (lockHolders # {} /\ p \notin lockHolders /\ status'[p] # status[p])
                  => (status'[p] = "busy" /\ lockHolders' = lockHolders) ]_vars

C5_ContenderRefused ==
    \E p \in Procs, q \in Procs :
        p # q /\ lockHolders = {p} /\ status[p] = "running" /\ status[q] = "busy"

\* C6: the lock is released on every way an operation ends (success, decline,
\* error, rejected push), so an invocation that is not running never holds it
\* and a later invocation is never refused.
C6_LockReleased ==
    /\ \A p \in Procs : status[p] # "running" => p \notin lockHolders
    /\ status[Main] # "busy"

C6_AcquiredAfterError ==
    /\ Len(ended) = 1 /\ ended[1] = "error"
    /\ status[Main] = "running" /\ lockHolders = {Main}

\* C8: when a pull returns an error after it created its safety branch, the
\* branch still exists; a step that deletes the running pull's safety branch
\* is the declined path or the end of a successful pull under a retention
\* policy of zero hours.
C8_BranchKept ==
    [][ /\ (Running("pull", pc) /\ temp_branch # "none" /\ status'[Main] = "error")
              => temp_branch \in DOMAIN branches'
        /\ (Running("pull", pc) /\ temp_branch \in DOMAIN branches
                                /\ temp_branch \notin DOMAIN branches')
              => \/ status'[Main] = "declined"
                 \/ status'[Main] = "ok" /\ retention = 0 ]_vars

C8_ErrorAfterBranch ==
    /\ PullReturned({"error"})
    /\ temp_branch # "none" /\ temp_branch \in DOMAIN branches
    /\ wb >= 1

\* C20: when repo.push fails in a push operation, push_history returns an
\* error: the 'push rejected, run pull first' error iff the transport's
\* message contains "non-fast-forward", "fetch first", "rejected" or "failed
\* to push", the transport's own error otherwise.
C20_PushFailureReturnsError ==
    [][ (Running("push", "push_remote") /\ faults' # faults) =>
            LET e == push_error'.returned
                rejection == push_error'.raised \cap RejectionPhrases # {}
            IN  /\ status'[Main] \in {"rejected", "error"}
                /\ (status'[Main] = "rejected") <=> rejection
                /\ rejection => e.class = "rejected"
                /\ ~rejection => (e.class = "propagated" /\ e.cause = push_error'.raised) ]_vars

C20_RejectedByFetchFirst ==
    /\ kind[Main] = "push" /\ status[Main] = "rejected"
    /\ push_error.raised = {"fetch first"}

\* C11: the analyzer returns one of the four variants: Identical iff the two
\* content hashes are equal; otherwise LocalIsPrefix iff local has no uuid
\* that remote lacks, remote has a uuid that local lacks and every shared uuid
\* has the same serialized content on both sides; otherwise RemoteIsPrefix iff
\* that holds with the sides swapped; otherwise Diverged.
ExtendedBy(a, b) ==
    /\ uuids_of(a.entries) \ uuids_of(b.entries) = {}
    /\ uuids_of(b.entries) \ uuids_of(a.entries) # {}
    /\ SharedIdentical(a, b)

SharedDiffers(a, b) ==
    \E i \in DOMAIN a.entries, j \in DOMAIN b.entries :
        /\ a.entries[i].uuid # NoUuid /\ a.entries[i].uuid = b.entries[j].uuid
        /\ a.entries[i] # b.entries[j]

C13_MergeLosesNothing ==
    ret.fn = "merge" =>
        Identities(call.local.entries) \cup Identities(call.remote.entries)
            \subseteq Identities(ret.merged)

C13_BothSidesContribute ==
    /\ ret.fn = "merge" /\ Len(ret.merged) = 3
    /\ Len(call.local.entries) = 2 /\ Len(call.remote.entries) = 2
    /\ Identities(call.remote.entries) \ Identities(call.local.entries) # {}
    /\ Identities(call.remote.entries) \cap Identities(call.local.entries) # {}

\* C14: in the merged sequence no two entries share a uuid and no two entries
\* without uuid share a content-key, whatever the two input sessions.
C14_NoIdentityTwice ==
    ret.fn = "merge" =>
        \A i, j \in DOMAIN ret.merged :
            Identity(ret.merged[i]) = Identity(ret.merged[j]) => i = j

\* C15 as stated: the merge of (local, remote) and the merge of (remote,
\* local) are the same multiset of entries and differ only in the relative
\* order of entries with equal timestamps.
Count(e, q) == Cardinality({i \in DOMAIN q : q[i] = e})

SameMultiset(a, b) == \A e \in Range(a) \cup Range(b) : Count(e, a) = Count(e, b)

OrderDiffersOnlyInTies(a, b) ==
    \A e, f \in Range(a) :
        e.ts # f.ts =>
            \A i, j \in DOMAIN a, k, n \in DOMAIN b :
                (a[i] = e /\ a[j] = f /\ b[k] = e /\ b[n] = f) => ((i < j) <=> (k < n))

C15_SwapSameMultiset ==
    ret.fn = "merge" =>
        /\ SameMultiset(ret.merged, ret.swapped)
        /\ OrderDiffersOnlyInTies(ret.merged, ret.swapped)

\* C15, amended: the two merges hold the same set of entry identities; an
\* identity that the inputs hold with one content, and each input at most
\* once, is held once by both results with that content; both results are
\* ordered by timestamp, so they differ in order only among equal timestamps.
\* For an identity with two contents each result keeps the content of its
\* first argument.
WithIdentity(id, q) == {i \in DOMAIN q : Identity(q[i]) = id}

Plain(id, a, b) ==
    /\ Cardinality(WithIdentity(id, a)) <= 1 /\ Cardinality(WithIdentity(id, b)) <= 1
    /\ \A i \in WithIdentity(id, a), j \in WithIdentity(id, b) : a[i] = b[j]

SortedByTs(q) == \A i, j \in DOMAIN q : i < j => q[i].ts <= q[j].ts

C15_SwapSameIdentities ==
    ret.fn = "merge" =>
        LET l == call.local.entries
            r == call.remote.entries
        IN  /\ Identities(ret.merged) = Identities(ret.swapped)
            /\ \A i \in DOMAIN ret.merged :
                  LET e == ret.merged[i] IN
                  /\ Plain(Identity(e), l, r) =>
                        (Count(e, ret.merged) = 1 /\ Count(e, ret.swapped) = 1)
                  /\ (e \notin Range(ret.swapped)) => e \in Range(l)
            /\ \A i \in DOMAIN ret.swapped :
                  ret.swapped[i] \notin Range(ret.merged) => ret.swapped[i] \in Range(r)
            /\ SortedByTs(ret.merged) /\ SortedByTs(ret.swapped)

C15_SwapKeepsOtherVersion ==
    /\ ret.fn = "merge" /\ SharedDiffers(call.local, call.remote)
    /\ ~SameMultiset(ret.merged, ret.swapped)
    /\ Len(ret.merged) = 3

\* C16: the merged sequence is ordered by timestamp ascending, entries
\* without timestamp first; entries with equal timestamps stay in insertion
\* order: the local ones in local order, then the added remote ones in remote
\* order.
C16_OrderedByTimestamp ==
    ret.fn = "merge" =>
        /\ SortedByTs(ret.merged)
        /\ \A t \in {ret.merged[i].ts : i \in DOMAIN ret.merged} :
              LET at(e) == e.ts = t
                  group == SelectSeq(ret.merged, at)
                  from_local == SelectSeq(call.local.entries, at)
              IN  /\ IsPrefix(from_local, group)
                  /\ IsSubseq(SubSeq(group, Len(from_local) + 1, Len(group)),
                              SelectSeq(call.remote.entries, at))

C16_OlderRemoteEntryMovesUp ==
    /\ ret.fn = "merge"
    /\ Len(call.local.entries) = 2 /\ Len(call.remote.entries) = 2
    /\ Len(ret.merged) = 4
    /\ ret.merged # call.local.entries \o call.remote.entries
    /\ \E i \in 1..3 : ret.merged[i].ts = ret.merged[i + 1].ts /\ ret.merged[i].ts # 0

\* C17: after merge_history_files, for any two files and either priority,
\* every (sessionId, timestamp) pair occurs at most once in the target and
\* the target's lines are sorted ascending by timestamp.
KeyOf(line) == <<line.sid, line.ts>>

C17_HistoryUniqueSorted ==
    ret.fn = "merge_history" =>
        LET t == ret.target.lines IN
        /\ ret.target.ex
        /\ \A i, j \in DOMAIN t : KeyOf(t[i]) = KeyOf(t[j]) => i = j
        /\ \A i, j \in DOMAIN t : i < j => t[i].ts <= t[j].ts

C17_DuplicateDroppedAndSorted ==
    /\ ret.fn = "merge_history" /\ Len(ret.target.lines) = 3
    /\ Len(call.source.lines) = 2 /\ Len(call.target.lines) = 2
    /\ call.source.lines[1].ts > call.source.lines[2].ts
    /\ \E i, j \in 1..2 : /\ KeyOf(call.source.lines[i]) = KeyOf(call.target.lines[j])
                            /\ call.source.lines[i] # call.target.lines[j]

\* C18: when both files hold an entry with one (sessionId, timestamp), the
\* target keeps the line of the priority side (the target's under
\* TargetFirst, the source's under SourceFirst) as it was read, and not the
\* other side's.
ValidLine(line) == line.sid # NoSid /\ line.sid # "" /\ line.ts # 0

ValidKeys(f) == {KeyOf(f.lines[i]) : i \in {j \in DOMAIN f.lines : ValidLine(f.lines[j])}}

FirstWithKey(f, k) ==
    f.lines[CHOOSE i \in DOMAIN f.lines :
        /\ ValidLine(f.lines[i]) /\ KeyOf(f.lines[i]) = k
        /\ \A j \in DOMAIN f.lines :
              (ValidLine(f.lines[j]) /\ KeyOf(f.lines[j]) = k) => i <= j]

PrioritySide == IF call.priority = "TargetFirst" THEN call.target ELSE call.source

C18_PrioritySideWins ==
    ret.fn = "merge_history" =>
        \A k \in ValidKeys(call.source) \cap ValidKeys(call.target) :
            LET kept == {i \in DOMAIN ret.target.lines : KeyOf(ret.target.lines[i]) = k}
            IN  /\ Cardinality(kept) = 1
                /\ \A i \in kept : ret.target.lines[i] = FirstWithKey(PrioritySide, k)

C18_SourceVersionKept ==
    /\ ret.fn = "merge_history" /\ call.priority = "SourceFirst"
    /\ HL \in Range(call.source.lines) /\ HR \in Range(call.target.lines)
    /\ HL \in Range(ret.target.lines) /\ HR \notin Range(ret.target.lines)
    /\ Len(ret.target.lines) = 3

\* C19: after a history-index merge the (sessionId, timestamp) keys of the
\* target are the keys of the valid lines of the two files, and no line with
\* a missing or empty sessionId or a missing or zero timestamp is in it.
C19_HistoryUnionOfValid ==
    ret.fn = "merge_history" =>
        /\ ValidKeys(ret.target) = ValidKeys(call.source) \cup ValidKeys(call.target)
        /\ \A i \in DOMAIN ret.target.lines : ValidLine(ret.target.lines[i])

C19_InvalidLinesDropped ==
    /\ ret.fn = "merge_history" /\ Len(ret.target.lines) = 2
    /\ Range(call.source.lines) = {HZ, H2} /\ Range(call.target.lines) = {HE, HB}

\* C21: a step that changes the operation journal adds exactly one record at
\* its end, is the step in which a running pull or push returns success, and
\* the record names that operation; so an invocation adds at most one record,
\* and a declined, rejected or failed invocation adds none.
C21_JournalOnlyOnCompletion ==
    [][journal' # journal =>
          /\ status[Main] = "running" /\ status'[Main] = "ok"
          /\ Len(journal') = Len(journal) + 1
          /\ SubSeq(journal', 1, Len(journal)) = journal
          /\ journal'[Len(journal')].type = kind[Main]]_vars

C21_DeclinedThenRecorded ==
    /\ Len(ended) = 2 /\ ended[1] \in {"declined", "rejected", "error"} /\ ended[2] = "ok"
    /\ Len(journal) = 1

\* C22: a step of pull in which the push of the safety branch, the fetch or
\* the pull from origin fails leaves the invocation running at the next step
\* (the checkout of main after the push, the discovery after the fetch) and
\* changes no branch, no working tree and no file of the local store.
C22_TransportFailureGoesOn ==
    [][(/\ status[Main] = "running" /\ kind[Main] = "pull"
        /\ pc \in {"push_temp", "fetch"}
        /\ faults' # faults)
          => /\ status'[Main] = "running"
             /\ pc' = IF pc = "push_temp" THEN "checkout_main" ELSE "discover"
             /\ branches' = branches /\ work' = work
             /\ local' = local /\ localHist' = localHist]_vars

C22_CompletedAfterFailedPush ==
    /\ PullReturned({"ok"}) /\ runs = 1 /\ faults = 1
    /\ has_remote /\ retention > 0
    /\ temp_branch \in DOMAIN branches /\ temp_branch \notin originBranches
    /\ Len(journal) = 1

\* C23: the step in which the confirmation of a pull is declined returns
\* success without the safety branch among the local branches, and without it
\* on the remote when the remote deletion did not fail, whatever the
\* retention; and no step of a pull up to and including that one changes the
\* local history index, a file of the local store, or a branch other than the
\* safety branch, except for the fast-forward of main to origin's main.
BeforeMerge ==
    /\ status[Main] = "running" /\ kind[Main] = "pull"
    /\ pc \in {"load", "create_branch", "checkout_temp", "stage", "stage_commit", "push_temp",
               "checkout_main", "fetch", "discover", "detect", "confirm"}

C23_DeclineTearsDown ==
    [][BeforeMerge =>
          /\ localHist' = localHist
          /\ local' # local => toolWrites' # toolWrites
          /\ \A b \in DOMAIN branches \cap DOMAIN branches' :
                \/ branches'[b] = branches[b]
                \/ b = temp_branch
                \/ pc = "fetch" /\ b = MainBranch /\ branches'[b] = originMain
          /\ (pc = "confirm" /\ status'[Main] # "running" /\ faults' = faults) =>
                /\ status'[Main] = "declined"
                /\ temp_branch \notin DOMAIN branches'
                /\ temp_branch \notin originBranches'
                /\ journal' = journal
          /\ (pc = "confirm" /\ status'[Main] = "declined") =>
                temp_branch \notin DOMAIN branches']_vars

C23_DeclinedWithRetention ==
    /\ PullReturned({"declined"}) /\ runs = 1 /\ faults = 0
    /\ has_remote /\ retention > 0
    /\ temp_branch = TempNames[1]
    /\ temp_branch \notin DOMAIN branches /\ temp_branch \notin originBranches
    /\ local = pre

\* C24: after append_entries_to_file on a file with bytes F and entries
\* e1..en the file exists and its bytes are F, unchanged, followed by one
\* newline-terminated line per entry in the order given; on a path that held
\* no file the bytes are those lines alone.
C24_AppendKeepsBytes ==
    ret.fn = "append" =>
        LET F == bytes_of(call.file) IN
        /\ ret.exists
        /\ Len(ret.bytes) = Len(F) + Len(call.entries)
        /\ SubSeq(ret.bytes, 1, Len(F)) = F
        /\ \A i \in DOMAIN call.entries :
              ret.bytes[Len(F) + i] = Chunk(call.entries[i], TRUE)
        /\ ~call.file.ex => ret.bytes = [i \in DOMAIN call.entries |-> Chunk(call.entries[i], TRUE)]

C24_TwoLinesAfterExisting ==
    /\ ret.fn = "append" /\ call.file = File(<<EA, EN>>)
    /\ call.entries = <<parse_line(EC), parse_line(EA)>>
    /\ Len(ret.bytes) = 4

\* C25: discover_sessions returns Ok whatever the files hold; the sessions it
\* returns are the sessions of the files that exist and parse, one per such
\* file, in the order of the walk whatever order the parses finish in, and a
\* file that does not parse contributes nothing.
Parseable(files) == {p \in Paths : files[p].ex /\ parses(files[p])}

C25_DiscoverySkipsUnparseable ==
    ret.fn = "discover" =>
        LET found == ret.result.sessions IN
        /\ ret.result.ok
        /\ Len(found) = Cardinality(Parseable(call.files))
        /\ \A p \in Parseable(call.files) :
              \E i \in DOMAIN found : found[i] = from_file(p, call.files[p])
        /\ \A i, j \in DOMAIN found :
              i < j => \E a, b \in DOMAIN call.order :
                          /\ a < b
                          /\ found[i].file_path = call.order[a]
                          /\ found[j].file_path = call.order[b]

C25_TornFileLeftOut ==
    /\ ret.fn = "discover" /\ call.finish # call.order
    /\ call.files["p1"] = File(<<EA, Malformed>>) /\ call.files["p2"] = File(<<EF>>)
    /\ ret.result.ok /\ Len(ret.result.sessions) = 1
    /\ ret.result.sessions[1].file_path = "p2"

\* C27: the session id of a file that parses is the sessionId of the first
\* of its entries, in file order, that carries one, whatever number of
\* entries without one precede it, and the file stem exactly when no entry
\* carries a sessionId.
C27_SessionIdOfFirstCarrier ==
    (ret.fn = "from_file" /\ ret.result # <<>>) =>
        LET lines == call.file.lines
            carriers == {i \in DOMAIN lines : lines[i].sid # NoSid}
        IN  /\ carriers = {} => ret.result[1].session_id = file_stem(call.path)
            /\ \A i \in carriers :
                  (\A j \in carriers : i <= j) => ret.result[1].session_id = lines[i].sid

C27_LaterEntryNamesSession ==
    /\ ret.fn = "from_file" /\ call.path = "p1" /\ call.file = File(<<EN, EF>>)
    /\ ret.result # <<>> /\ ret.result[1].session_id = "s2"

\* C26: in the step of a pull in which the smart merge of conflicts fails,
\* every conflict left unresolved has its remote session written at a path
\* that held no file, named after the remote file with the conflict suffix;
\* the remote file itself, every file of the local store and every branch
\* (the safety branch with the local version among them) are as before, and
\* the pull goes on.
RemoteOf(conflict) ==
    CHOOSE r \in Range(remote_sessions) : r.file_path = conflict.remote_file

C26_KeepBothKeepsBoth ==
    [][(/\ status[Main] = "running" /\ kind[Main] = "pull"
        /\ pc = "smart_merge" /\ faults' # faults)
          => /\ status'[Main] = "running" /\ pc' = "nonconflict"
             /\ local' = local /\ branches' = branches
             /\ \A i \in DOMAIN conflicts :
                   conflicts'[i].resolution = "Pending" =>
                      LET c == conflicts[i]
                          copy == c.remote_file \o "-conflict"
                      IN  /\ copy \in Paths \ SessionPaths
                          /\ ~work.files[copy].ex
                          /\ work'.files[copy] = write_to_file(RemoteOf(c))
                          /\ work'.files[c.remote_file] = work.files[c.remote_file]]_vars

\* C28: when a pull checks the main branch out, and when it fetches and
\* pulls from the remote, the safety branch holds, committed, the session of
\* every local file that parsed at the start of the pull; the checkout of
\* main leaves the safety branch with nothing uncommitted; the remote's main
\* is merged in no earlier step; and a safety branch that is not on the
\* remote at the fetch was either not pushed for want of a remote or its
\* push had failed.
SavedOnSafetyBranch ==
    /\ temp_branch \in DOMAIN branches
    /\ \A p \in Paths :
          (pre[p].ex /\ parses(pre[p]))
              => branches[temp_branch].files[p] = write_to_file(from_file(p, pre[p]))

C28_SavedBeforeFetch ==
    [][(status[Main] = "running" /\ kind[Main] = "pull") =>
          /\ pc \in {"checkout_main", "fetch"} => SavedOnSafetyBranch
          /\ pc = "checkout_main" => head = temp_branch /\ work = branches[temp_branch]
          /\ (pc = "fetch" /\ has_remote /\ temp_branch \notin originBranches) => faults > 0
          /\ (synced' # synced \/ (head' = main_branch /\ head # main_branch))
                => pc \in {"checkout_main", "fetch"}
          /\ (temp_branch \in originBranches' \ originBranches) => pc = "push_temp"]_vars

C28_PushedThenFetched ==
    /\ status[Main] = "running" /\ kind[Main] = "pull" /\ pc = "fetch"
    /\ has_remote /\ temp_branch \in originBranches /\ ~synced
    /\ branches[temp_branch].files["p1"].ex
    /\ branches[temp_branch].files["p1"] # branches[MainBranch].files["p1"]

\* C29: the pruning step at the start of a pull removes from the local
\* branches, and from the remote when there is one and the remote deletion
\* does not fail, every safety branch whose time stamp is older than the
\* retention window, and keeps every other branch, locally and on the remote.
OlderThanRetention(b) == IsTemp(b) /\ (retention = 0 \/ b \in aged)

C29_PruneOldBranches ==
    [][(Running("pull", "load") /\ pc' = "create_branch") =>
          \A b \in DOMAIN branches :
             IF OlderThanRetention(b)
             THEN /\ b \notin DOMAIN branches'
                  /\ (has_remote /\ faults' = faults) => b \notin originBranches'
             ELSE /\ b \in DOMAIN branches' /\ branches'[b] = branches[b]
                  /\ b \in originBranches => b \in originBranches']_vars

\* C30: the step in which a pull returns success after its merge leaves the
\* safety branch out of the local branches exactly when the retention is
\* zero, and then also out of the remote's branches unless the remote
\* deletion failed; with a retention above zero the branch is among the local
\* branches after the step, unchanged, and on the remote if it was there.
C30_RetiredPerRetention ==
    [][(Running("pull", "cleanup") /\ status'[Main] = "ok") =>
          /\ temp_branch \in DOMAIN branches
          /\ (temp_branch \notin DOMAIN branches') <=> (retention = 0)
          /\ (retention = 0 /\ faults' = faults) => temp_branch \notin originBranches'
          /\ retention > 0 =>
                /\ branches'[temp_branch] = branches[temp_branch]
                /\ temp_branch \in originBranches => temp_branch \in originBranches']_vars

C30_RetainedOnBothSides ==
    /\ PullReturned({"ok"}) /\ runs = 1 /\ faults = 0
    /\ retention > 0 /\ has_remote
    /\ temp_branch \in DOMAIN branches /\ temp_branch \in originBranches
    /\ branches[temp_branch] # branches[MainBranch]

\* C31: in the step of pull that merges the non-conflicting sessions, taken
\* with main checked out, for every session of the safety branch whose id is
\* not in the conflict set: when the remote side holds the id and the
\* relationship is Identical or LocalIsPrefix the file at the session's path
\* in the transport is left as it was, when it is RemoteIsPrefix the file
\* becomes the safety-branch version, and when the remote side does not hold
\* the id the file becomes the safety-branch version; the commit that
\* follows puts the working tree on main.
RelationshipOf(local_session) ==
    analyze_session_relationship(local_session, MapGet(remote_sessions, local_session.session_id))

C31_CopiedPerRelationship ==
    [][(status[Main] = "running" /\ kind[Main] = "pull") =>
          /\ (pc = "nonconflict" /\ pc' = "commit_main") =>
                /\ head = main_branch
                /\ \A i \in DOMAIN temp_branch_sessions :
                      LET l == temp_branch_sessions[i] IN
                      ~InConflict(conflicts, l.session_id) =>
                         IF ~HasId(remote_sessions, l.session_id)
                         THEN work'.files[l.file_path] = write_to_file(l)
                         ELSE /\ RelationshipOf(l) \in {"Identical", "LocalIsPrefix"}
                                    => work'.files[l.file_path] = work.files[l.file_path]
                              /\ RelationshipOf(l) = "RemoteIsPrefix"
                                    => work'.files[l.file_path] = write_to_file(l)
          /\ (pc = "commit_main" /\ pc' = "reread") =>
                head = main_branch /\ branches'[main_branch] = work]_vars

C31_LocalVersionCopied ==
    /\ Running("pull", "commit_main") /\ conflicts = <<>>
    /\ \E i \in DOMAIN temp_branch_sessions :
          LET l == temp_branch_sessions[i] IN
          /\ HasId(remote_sessions, l.session_id)
          /\ RelationshipOf(l) = "RemoteIsPrefix"
          /\ work.files[l.file_path] = write_to_file(l)
          /\ branches[main_branch].files[l.file_path] # work.files[l.file_path]
    /\ \E i \in DOMAIN temp_branch_sessions :
          ~HasId(remote_sessions, temp_branch_sessions[i].session_id)

\* C32: a round of the write-back for a transport session whose id the
\* re-read local store holds leaves the local file as the re-read entries
\* followed by the transport entries whose identity (the uuid, or the
\* content-key of an entry without uuid) is not among the re-read entries,
\* in transport order, and leaves the local store as it was when no
\* transport entry is missing.
RECURSIVE AbsentFrom(_, _)
AbsentFrom(entries, known) ==
    IF entries = <<>> THEN <<>>
    ELSE IF Identity(Head(entries)) \in known THEN AbsentFrom(Tail(entries), known)
    ELSE <<Head(entries)>> \o AbsentFrom(Tail(entries), known)

C32_AppendsExactlyTheMissing ==
    (ret.fn = "write_back" /\ call.known) =>
        LET before == StoreWith(TRUE, call.local)
            absent == AbsentFrom(call.sync.entries, Identities(call.local.entries))
        IN  IF absent = <<>> THEN ret.store = before
            ELSE ret.store = [before EXCEPT ![call.sync.file_path] =
                                 File(call.local.entries \o absent)]

C32_SnapshotMatchedByKey ==
    /\ ret.fn = "write_back" /\ call.known
    /\ \E i \in DOMAIN call.local.entries, j \in DOMAIN call.sync.entries :
          /\ call.local.entries[i].uuid = NoUuid
          /\ call.sync.entries[j].uuid = NoUuid
          /\ make_content_key(call.local.entries[i]) = make_content_key(call.sync.entries[j])
    /\ Len(ret.store["p1"].lines) = Len(call.local.entries) + 1
    /\ ret.store["p1"].lines[Len(call.local.entries) + 1].uuid # NoUuid

\* C33: in every step of a pull after the staging commit, a change of the
\* transport working tree either ends with main checked out or is the
\* checkout of the safety branch, which yields the committed tree of that
\* branch; the step that reads the safety branch's sessions reads them from
\* that committed tree and leaves working tree, branches and HEAD as they
\* were, on main.
AfterStaging ==
    /\ status[Main] = "running" /\ kind[Main] = "pull"
    /\ pc \in {"push_temp", "checkout_main", "fetch", "discover", "detect", "confirm",
               "smart_merge", "nonconflict", "commit_main", "reread", "writeback", "hist_write",
               "cleanup"}

C33_WrittenOnlyOnMain ==
    [][AfterStaging =>
          /\ work' # work =>
                \/ head' = main_branch
                \/ head' = temp_branch /\ work' = branches[temp_branch]
          /\ (head = temp_branch /\ temp_branch # main_branch) =>
                work = branches[temp_branch] /\ pc \in {"push_temp", "checkout_main"}
          /\ (pc = "discover" /\ pc' = "detect") =>
                /\ head = main_branch /\ head' = head
                /\ work' = work /\ branches' = branches
                /\ temp_branch_sessions' = discover_in(branches[temp_branch].files, walk)]_vars

C33_MergedOnMain ==
    /\ Running("pull", "commit_main")
    /\ head = main_branch /\ work # branches[main_branch]
    /\ temp_branch_sessions # NoSessions
    /\ branches[temp_branch] # branches[main_branch]
    /\ work # branches[temp_branch]

\* C34: when a pull has returned successfully, for every session file that
\* the local store held and that parsed when the pull started, the identity
\* of every entry of that file (the uuid, or the content-key of an entry
\* without uuid) is among the identities of one file of the same session id
\* on the transport's main branch.
SnapshotOnMain(p) ==
    \E q \in Paths :
        LET f == branches[main_branch].files[q] IN
        /\ f.ex /\ parses(f)
        /\ from_file(q, f).session_id = from_file(p, pre[p]).session_id
        /\ Identities(EntriesOf(pre[p])) \subseteq Identities(EntriesOf(f))

C34_SnapshotReachesMain ==
    PullReturned({"ok"}) =>
        \A p \in Paths : (pre[p].ex /\ parses(pre[p])) => SnapshotOnMain(p)

\* C35: when a pull has returned successfully, the key (sessionId,
\* timestamp) of every valid line of the local history index that the
\* assistant tool did not append during the pull is the key of a line of
\* the history index on the transport's main branch.
C35_LocalIndexOnMain ==
    PullReturned({"ok"}) =>
        \A i \in DOMAIN localHist.lines :
            (ValidLine(localHist.lines[i]) /\ localHist.lines[i] \notin Range(toolHist))
                => KeyOf(localHist.lines[i]) \in ValidKeys(branches[main_branch].hist)

\* C38: when a pull has returned, every line that the assistant tool
\* appended to the local history index while the pull was running is a line
\* of the local history index.
C38_ToolLinesKept ==
    PullReturned({"ok", "declined", "error"}) =>
        \A i \in DOMAIN toolHist : toolHist[i] \in Range(localHist.lines)

\* C36: when a pull has returned, with success, declined or with an error,
\* the safety branch it created is not the checked-out branch of the
\* transport repository, and after success and after a declined confirmation
\* the checked-out branch is main.
C36_ReturnsOnMain ==
    PullReturned({"ok", "declined", "error"}) =>
        /\ head # temp_branch
        /\ status[Main] \in {"ok", "declined"} => head = main_branch

\* C37: no step of a pull up to and including the commit of the merged
\* state on main changes a file of the local store or the local history
\* index, an append of the assistant tool aside; the steps of a pull that do
\* are rounds of the write-back and the rewrite of the index by the merge.
UpToCommit ==
    /\ status[Main] = "running" /\ kind[Main] = "pull"
    /\ pc \in {"load", "create_branch", "checkout_temp", "stage", "stage_commit", "push_temp",
               "checkout_main", "fetch", "discover", "detect", "confirm", "smart_merge",
               "nonconflict", "commit_main"}

UniqueIds(sessions) ==
    \A i, j \in DOMAIN sessions : sessions[i].session_id = sessions[j].session_id => i = j

C39_DivergedAlreadyCaught ==
    (/\ Running("pull", "nonconflict")
     /\ UniqueIds(temp_branch_sessions) /\ UniqueIds(remote_sessions)) =>
        /\ \A i \in DOMAIN temp_branch_sessions, j \in DOMAIN remote_sessions :
              LET l == temp_branch_sessions[i]
                  r == remote_sessions[j]
              IN  (l.session_id = r.session_id
                    /\ analyze_session_relationship(l, r) = "Diverged")
                     => \E k \in DOMAIN conflicts :
                           /\ conflicts[k].session_id = l.session_id
                           /\ conflicts[k].local_file = l.file_path
                           /\ conflicts[k].remote_file = r.file_path
        /\ \A i \in DOMAIN temp_branch_sessions :
              LET l == temp_branch_sessions[i] IN
              (~InConflict(conflicts, l.session_id) /\ HasId(remote_sessions, l.session_id))
                 => RelationshipOf(l) # "Diverged"

C39_DivergedPairInConflicts ==
    /\ Running("pull", "nonconflict")
    /\ UniqueIds(temp_branch_sessions) /\ UniqueIds(remote_sessions)
    /\ Len(temp_branch_sessions) = 2
    /\ \E i \in DOMAIN temp_branch_sessions :
          /\ HasId(remote_sessions, temp_branch_sessions[i].session_id)
          /\ RelationshipOf(temp_branch_sessions[i]) = "Diverged"
    /\ Len(conflicts) = 1

=============================================================================
